---- MODULE Spec2Model ----
(***************************************************************************)
(* AnyRead file parser: FileParser.parse (one URL) and FileParser.parseMany *)
(* (chunked batch with progress callback), with the collaborators (byte     *)
(* fetcher, format decoders, vision adapter, logging sink, onProgress       *)
(* callback) as nondeterministic outcomes.                                  *)
(*                                                                          *)
(* Strings of the source that are not ASCII are written as ASCII stand-ins; *)
(* the comment beside each gives the literal of the source.  A URL and a    *)
(* file name are sequences of one-character strings, so that the URL        *)
(* functions are computed character by character as the code does.  A       *)
(* template literal is the sequence of its pieces (Join'ed expressions and  *)
(* literal parts), the empty string is the empty sequence.                  *)
(***************************************************************************)
EXTENDS Integers, Sequences, FiniteSets, TLC

\* ------------------------------------------------------------------ bounds

\* longest URL list handed to parseMany
MaxUrls == 4
\* largest value of the concurrency option
MaxConcurrency == 2
\* loop iterations of parseMany the model follows beyond one per URL (the loop of
\* parseMany never ends when concurrency <= 0)
ExtraIterations == 1
\* calls of a user-supplied logging sink that throw during one run
MaxSinkThrows == 1
\* largest configured maxRetries of a vision adapter
MaxRetriesBound == 4
\* most lines of a CSV file
MaxLines == 3
\* largest configured maxRows of a tabular extractor
MaxRowsBound == 3
\* most sheets of a workbook
MaxSheets == 3
\* most rows of a sheet
MaxSheetRows == 3
\* the records handed to format
MaxFiles == 3

\* ------------------------------------------------------- character helpers

UpperCase == <<"A","B","C","D","E","F","G","H","I","J","K","L","M",
               "N","O","P","Q","R","S","T","U","V","W","X","Y","Z">>
LowerCase == <<"a","b","c","d","e","f","g","h","i","j","k","l","m",
               "n","o","p","q","r","s","t","u","v","w","x","y","z">>

\* String.prototype.toLowerCase on one character
ToLowerChar(c) ==
    IF \E k \in 1..26 : UpperCase[k] = c
    THEN LowerCase[CHOOSE k \in 1..26 : UpperCase[k] = c]
    ELSE c

ToLowerCase(s) == [k \in 1..Len(s) |-> ToLowerChar(s[k])]

RECURSIVE Join(_)
\* the JavaScript string made of the characters of s
Join(s) == IF s = <<>> THEN "" ELSE Head(s) \o Join(Tail(s))

HexDigits == {"0","1","2","3","4","5","6","7","8","9",
              "A","B","C","D","E","F","a","b","c","d","e","f"}

\* the escape sequences %XX of one ASCII character that the URLs of the model use
PercentTable ==
    [h \in {<<"2","0">>, <<"2","F">>, <<"2","f">>, <<"3","F">>, <<"3","f">>,
            <<"2","E">>, <<"2","e">>, <<"2","5">>} |->
        CASE h = <<"2","0">> -> " "
          [] h \in {<<"2","F">>, <<"2","f">>} -> "/"
          [] h \in {<<"3","F">>, <<"3","f">>} -> "?"
          [] h \in {<<"2","E">>, <<"2","e">>} -> "."
          [] OTHER -> "%"]

RECURSIVE DecodeFrom(_, _)
\* decodeURIComponent from position k on: the decoded characters, or ok = FALSE
\* (URIError) when an escape is malformed: a '%' not followed by two hex digits,
\* or an escape outside the table (a byte that is no complete UTF-8 sequence)
DecodeFrom(s, k) ==
    IF k > Len(s) THEN [ok |-> TRUE, str |-> <<>>]
    ELSE IF s[k] # "%"
         THEN LET rest == DecodeFrom(s, k + 1)
              IN  [ok |-> rest.ok, str |-> <<s[k]>> \o rest.str]
         ELSE IF k + 2 > Len(s) \/ s[k+1] \notin HexDigits \/ s[k+2] \notin HexDigits
                 \/ <<s[k+1], s[k+2]>> \notin DOMAIN PercentTable
              THEN [ok |-> FALSE, str |-> <<>>]
              ELSE LET rest == DecodeFrom(s, k + 3)
                   IN  [ok |-> rest.ok,
                        str |-> <<PercentTable[<<s[k+1], s[k+2]>>]>> \o rest.str]

decodeURIComponent(s) == DecodeFrom(s, 1)

Max(S) == CHOOSE x \in S : \A y \in S : y <= x
Min(S) == CHOOSE x \in S : \A y \in S : x <= y

\* s.split(sep).pop(): the text after the last sep (all of s when there is none)
SplitPop(s, sep) ==
    LET at == {k \in 1..Len(s) : s[k] = sep}
    IN  IF at = {} THEN s ELSE SubSeq(s, Max(at) + 1, Len(s))

\* s.split(sep)[0]: the text before the first sep (all of s when there is none)
SplitFirst(s, sep) ==
    LET at == {k \in 1..Len(s) : s[k] = sep}
    IN  IF at = {} THEN s ELSE SubSeq(s, 1, Min(at) - 1)

Unknown == <<"u","n","k","n","o","w","n">>

\* FileParser.extractFileName
extractFileName(url) ==
    LET decoded == decodeURIComponent(url)
    IN  IF ~decoded.ok THEN Unknown
        ELSE LET filename == SplitFirst(SplitPop(decoded.str, "/"), "?")
             IN  IF filename = <<>> THEN Unknown ELSE filename

\* path.extname (posix) of a name without '/': from the last '.' on, empty when
\* there is no '.', when the last '.' is the first character, or for ".."
extname(f) ==
    LET dots == {k \in 1..Len(f) : f[k] = "."}
    IN  IF dots = {} THEN <<>>
        ELSE IF Max(dots) = 1 \/ f = <<".", ".">> THEN <<>>
        ELSE SubSeq(f, Max(dots), Len(f))

ExcelExts    == {".xlsx", ".xls"}
CsvExts      == {".csv"}
WordExts     == {".docx", ".doc"}
TextExts     == {".txt", ".rtf"}
JsonExts     == {".json"}
YamlExts     == {".yaml", ".yml"}
XmlExts      == {".xml"}
HtmlExts     == {".html", ".htm"}
MarkdownExts == {".md", ".markdown"}
PdfExts      == {".pdf"}
ImageExts    == {".jpg", ".jpeg", ".png", ".gif", ".webp", ".bmp", ".svg", ".ico",
                 ".tiff", ".tif"}
AudioExts    == {".mp3", ".wav", ".ogg", ".m4a", ".flac", ".aac"}
VideoExts    == {".mp4", ".avi", ".mov", ".webm", ".mkv"}

EXTENSION_MAP ==
    [e \in ExcelExts \cup CsvExts \cup WordExts \cup TextExts \cup JsonExts
           \cup YamlExts \cup XmlExts \cup HtmlExts \cup MarkdownExts \cup PdfExts
           \cup ImageExts \cup AudioExts \cup VideoExts |->
        CASE e \in ExcelExts    -> "excel"
          [] e \in CsvExts      -> "csv"
          [] e \in WordExts     -> "word"
          [] e \in TextExts     -> "text"
          [] e \in JsonExts     -> "json"
          [] e \in YamlExts     -> "yaml"
          [] e \in XmlExts      -> "xml"
          [] e \in HtmlExts     -> "html"
          [] e \in MarkdownExts -> "markdown"
          [] e \in PdfExts      -> "pdf"
          [] e \in ImageExts    -> "image"
          [] e \in AudioExts    -> "audio"
          [] OTHER              -> "video"]

\* detectFileType that looks the extension up as it is written
detectFileTypeCaseSensitive(filename) ==
    LET ext == Join(extname(filename))
    IN  IF ext \in DOMAIN EXTENSION_MAP THEN EXTENSION_MAP[ext] ELSE "unknown"

\* FileParser.detectFileType
detectFileType(filename) ==
    LET ext == Join(ToLowerCase(extname(filename)))
    IN  IF ext \in DOMAIN EXTENSION_MAP THEN EXTENSION_MAP[ext] ELSE "unknown"

FileTypes == {"excel", "csv", "word", "text", "pdf", "json", "yaml", "xml", "html",
              "markdown", "image", "audio", "video", "unknown"}
AITypes == {"image", "audio", "video"}
\* decoders that parse calls without await (they return their result at once)
SyncDecoded == {"excel", "csv", "text", "json", "yaml", "html", "markdown"}
\* decoders that parse awaits
AsyncDecoded == {"word", "pdf", "xml"}

\* ------------------------------------------------------------ the records

\* "不支持的文件格式"
UnsupportedFormat == "unsupported file format"
\* message of the exception a throwing custom logging sink raises
LoggerError == "logging sink failed"
\* messages of the exceptions of the byte fetcher (axios)
FetchErrors == {"Network Error", "maxContentLength size of 52428800 exceeded"}
\* "图片识别失败: ..." : the exception of analyzeImage once its retries are used up
VisionError == "vision recognition failed: no content"
\* the text analyzeImage returns
VisionText == <<"the description written by the vision model">>

\* message of the exception a decoder raises on malformed bytes
DecoderError(type) ==
    CASE type = "pdf"  -> "PDF parse failed: bad XRef"       \* `PDF 解析失败: ${...}`
      [] type = "json" -> "JSON parse failed: Unexpected token" \* `JSON 解析失败: ${...}`
      [] type = "yaml" -> "YAML parse failed: bad indentation"  \* `YAML 解析失败: ${...}`
      [] type = "xml"  -> "XML parse failed: Unclosed root tag" \* `XML 解析失败: ${...}`
      [] type = "word" -> "legacy .doc is not supported"     \* "不支持旧版 .doc 格式..."
      [] OTHER         -> "cannot decode " \o type

\* the contents a decoder may return: some text, and for the decoders that copy
\* the bytes (text, markdown, html) also the empty string of an empty file
DecodedContents(type) ==
    {<<"text of the ", type, " file">>}
        \cup (IF type \in {"text", "markdown", "html"} THEN {<<>>} ELSE {})

\* the metadata fields a decoder returns
DecoderMetadata(type) ==
    CASE type = "excel"    -> {"sheetNames", "rowCount", "truncated"}
      [] type = "csv"      -> {"rowCount", "truncated"}
      [] type = "word"     -> {"messages"}
      [] type = "text"     -> {"encoding", "lineCount"}
      [] type = "pdf"      -> {"pages", "info"}
      [] type = "json"     -> {"type", "keys", "length"}
      [] type = "yaml"     -> {"type", "keys"}
      [] type = "xml"      -> {"rootElement"}
      [] type = "html"     -> {"title", "description", "links", "images"}
      [] OTHER             -> {"headings", "hasCodeBlocks", "hasTables"}

\* UnknownRecord with the URL in the note instead of the file name
UnknownRecordWithUrl(fileName, url) ==
    [fileName |-> Join(fileName), url |-> Join(url), type |-> "unknown",
     content |-> <<"[unknown format] ", Join(url)>>,
     success |-> FALSE, error |-> UnsupportedFormat]

\* the record parse returns for the unknown category (openai.ts 301-308)
UnknownRecord(fileName, url) ==
    [fileName |-> Join(fileName), url |-> Join(url), type |-> "unknown",
     content |-> <<"[unknown format] ", Join(fileName)>>,   \* `[未知格式] ${fileName}`
     success |-> FALSE, error |-> UnsupportedFormat]

\* the record parse returns after a local decode (openai.ts 388-395)
SuccessRecord(fileName, url, fileType, content) ==
    [fileName |-> Join(fileName), url |-> Join(url), type |-> fileType,
     content |-> content, success |-> TRUE,
     metadata |-> {"size"} \cup DecoderMetadata(fileType)]

\* FailRecord with a fixed error text instead of the exception's message
FailRecordNoMessage(fileName, url, fileType, message) ==
    [fileName |-> Join(fileName), url |-> Join(url), type |-> fileType,
     content |-> <<>>, success |-> FALSE, error |-> "parse failed"]

\* the record of the catch block of parse (openai.ts 398-405)
FailRecord(fileName, url, fileType, message) ==
    [fileName |-> Join(fileName), url |-> Join(url), type |-> fileType,
     content |-> <<>>, success |-> FALSE, error |-> message]

\* the record parseMany builds for an exception escaping parse (openai.ts 488-495)
ConvertedRecord(url, message) ==
    [fileName |-> Join(extractFileName(url)), url |-> Join(url), type |-> "unknown",
     content |-> <<>>, success |-> FALSE, error |-> message]

\* labels of parseWithAI: "图片文件", "音频文件", "视频文件", "PDF文档"
Labels(type) ==
    CASE type = "image" -> "image file"
      [] type = "audio" -> "audio file"
      [] type = "video" -> "video file"
      [] OTHER          -> "PDF document"

\* `[${labels[type]}] ${fileName}\n文件链接: ${url}\n（需要配置 AI 才能解析此类型文件）`
PlaceholderContent(fileName, url, type) ==
    <<"[", Labels(type), "] ", Join(fileName), "\nfile link: ", Join(url),
      "\n(an AI provider must be configured to parse this type of file)">>

\* the record parseWithAI returns without AI or after AI failed (openai.ts 454-461)
PlaceholderRecord(fileName, url, type) ==
    [fileName |-> Join(fileName), url |-> Join(url), type |-> type,
     content |-> PlaceholderContent(fileName, url, type), success |-> TRUE,
     metadata |-> {"mimeType"}]

\* the record parseWithAI returns with the adapter's text (openai.ts 433-440)
AIRecord(fileName, url, type, text) ==
    [fileName |-> Join(fileName), url |-> Join(url), type |-> type,
     content |-> text, success |-> TRUE, metadata |-> {"mimeType"}]

\* -------------------------------------------------------------- the state

VARIABLES
    api,             \* the method that is called: "parse" or "parseMany"
    urls,            \* its argument: the URL (a list of one) or the URL list
    aiProvider,      \* this.aiProvider # null (config.ai was given)
    customLogger,    \* this.logger is a user-supplied sink, which may throw
    concurrency,     \* options.concurrency ?? 3
    continueOnError, \* options.continueOnError ?? true
    onProgress,      \* options.onProgress: "absent" or "given" (a callback, which may throw)
    configOutputFormat, \* this.config.excel.outputFormat and this.config.csv.outputFormat
    enableAI,        \* this.config.image.enableAI and this.config.pdf.enableAI
    tasks,           \* per URL index: the state of its parse call
    pmPc,            \* parseMany: "idle", "await" (Promise.all), "resolved", "rejected"
    i,               \* parseMany: the loop variable
    batch,           \* parseMany: the URL indices of the current chunk, in order
    iterations,      \* parseMany: loop iterations entered so far
    results,         \* parseMany: the results array
    completed,       \* parseMany: the completed counter
    pmError,         \* parseMany: message of the exception it rejected with
    rejectedBy,      \* history: what raised it: "parse", "onProgress" or "logger"
    progress,        \* history: the onProgress calls made, in order
    finished,        \* history: the URL indices in the order their parse calls settled
    sinkThrown,      \* history: calls of the logging sink that threw
    vision,          \* the state of a call of analyzeImage of a vision adapter
    table,           \* a call of parseCSV or parseExcel: its arguments and its result
    fmt,             \* a call of format: its arguments, its locals and its outcome
    naming,          \* a call of extractFileName and of detectFileType on its result
    entry            \* the module of the convenience functions: defaultParser and its calls

vars == <<api, urls, aiProvider, customLogger, concurrency, continueOnError, onProgress,
          configOutputFormat, enableAI, tasks, pmPc, i, batch, iterations, results, completed, pmError, rejectedBy,
          progress, finished, sinkThrown, vision, table, fmt, naming, entry>>

\* what the steps of parse and parseMany leave alone: their arguments, the
\* configuration, and the calls of the other operations
config == <<api, urls, aiProvider, customLogger, concurrency, continueOnError, onProgress,
            configOutputFormat, enableAI, vision, table, fmt, naming, entry>>

\* the variables of parse and parseMany
parserVars == <<api, urls, aiProvider, customLogger, concurrency, continueOnError,
                onProgress, configOutputFormat, enableAI, tasks, pmPc, i, batch, iterations, results, completed,
                pmError, rejectedBy, progress, finished, sinkThrown>>

\* ------------------------------------------------------------- the inputs

\* "h/a.png"
UrlPng == <<"h","/","a",".","p","n","g">>
\* "h/b.csv"
UrlCsv == <<"h","/","b",".","c","s","v">>
\* "h/c.bin" (an extension outside the table)
UrlBin == <<"h","/","c",".","b","i","n">>
\* "h/d.pdf"
UrlPdf == <<"h","/","d",".","p","d","f">>
\* "h/i.json"
UrlJson == <<"h","/","i",".","j","s","o","n">>
\* "h/n.mp3"
UrlMp3 == <<"h","/","n",".","m","p","3">>
\* "h/README" (no extension)
UrlReadme == <<"h","/","R","E","A","D","M","E">>

\* "h/.env" (a dot file: extname is empty)
UrlEnv == <<"h","/",".","e","n","v">>
\* "h/q%zz.pdf" (decodeURIComponent throws, the name becomes "unknown")
UrlBadEscape == <<"h","/","q","%","z","z",".","p","d","f">>
\* "h/" (an empty last segment, the name becomes "unknown")
UrlNoName == <<"h","/">>

\* the URLs parse is called with: one per category and the shapes of extractFileName
ParseUrls == {
    UrlPng, UrlCsv, UrlBin, UrlPdf, UrlJson, UrlMp3, UrlReadme,
    <<"h","/","e",".","x","l","s","x">>,
    <<"h","/","f",".","d","o","c">>,
    <<"h","/","g",".","t","x","t">>,
    <<"h","/","j",".","y","m","l">>,
    <<"h","/","k",".","x","m","l">>,
    <<"h","/","l",".","h","t","m">>,
    <<"h","/","m",".","m","d">>,
    <<"h","/","o",".","M","P","4">>,
    <<"h","/","a","%","2","0","b",".","c","s","v","?","x","=","1">>,
    <<"h","/","p",".","J","P","G","?","v","=","2">>,
    UrlEnv, UrlBadEscape, UrlNoName }

\* parseMany is called with the first n URLs of this list of distinct URLs
BatchList == <<UrlCsv, UrlPng, UrlBin, UrlJson, UrlMp3, UrlReadme>>

\* options.concurrency: a caller may pass any number
MinConcurrency == 0 - 1
\* concurrency when the option is absent (openai.ts 468)
DefaultConcurrency == 3

\* the calls of this.logger in parse, downloadFile and parseWithAI, by their line
LogSites == {"L258", "L273", "L285", "L349", "L386", "L397", "L426", "L442"}
NoLog == [s \in LogSites |-> FALSE]
\* which of the calls of this.logger at the given lines throw: none with the no-op
\* and the console sink, any of them with a user-supplied sink
\* (at most budget of them)
ChoicesWithin(sites, budget) ==
    IF customLogger
    THEN {[s \in LogSites |-> s \in T] :
            T \in {T \in SUBSET sites : Cardinality(T) <= budget}}
    ELSE {NoLog}
Choices(sites) == ChoicesWithin(sites, MaxSinkThrows - sinkThrown)
\* whether one call of the sink throws
SinkThrows == IF customLogger /\ sinkThrown < MaxSinkThrows THEN BOOLEAN ELSE {FALSE}

\* message of an exception thrown by the caller's onProgress callback
CallbackError == "onProgress failed"

NoRecord == [none |-> TRUE]

\* no call of analyzeImage
IdleVision ==
    [pc |-> "idle", provider |-> "", maxRetries |-> 0, attempt |-> 0, lastError |-> "",
     content |-> "", error |-> "", requests |-> 0, imageFetched |-> FALSE,
     imageFetches |-> 0, sleeps |-> <<>>, history |-> <<>>]

\* no call of a tabular extractor
IdleTable == [pc |-> "none"]

\* config.outputFormat ?? "markdown" (csv.ts 28)
DefaultOutputFormat == "markdown"

\* no call of format
IdleFormat == [pc |-> "none"]
\* no call of extractFileName
IdleNaming == [pc |-> "none"]
\* let defaultParser: FileParser | null = null (part_001 47); parsers are named by
\* the order of their construction, 0 is null
IdleEntry == [defaultParser |-> 0, parsers |-> <<>>, events |-> <<>>]

\* enableAI of the image and pdf blocks, true when absent (src/test/server.ts 305-321)
DefaultEnableAI == [block \in {"image", "pdf"} |-> TRUE]

IdleTask ==
    [pc |-> "idle", fileName |-> <<>>, fileType |-> "",
     settles |-> "", rec |-> NoRecord, msg |-> "", chunk |-> 0,
     fetchCalls |-> 0, decodeCalls |-> 0, aiCalls |-> 0,
     cause |-> "", fetched |-> FALSE, decodeThrew |-> FALSE, aiThrew |-> FALSE,
     logThrew |-> FALSE, rawData |-> FALSE]

Init ==
    /\ api \in {"parse", "parseMany"}
    /\ aiProvider \in BOOLEAN
    /\ customLogger \in BOOLEAN
    /\ IF api = "parse"
       THEN /\ urls \in {<<u>> : u \in ParseUrls}
            /\ concurrency = DefaultConcurrency
            /\ continueOnError = TRUE
            /\ onProgress = "absent"
            /\ configOutputFormat \in {DefaultOutputFormat, "raw"}
            /\ enableAI \in [{"image", "pdf"} -> BOOLEAN]
       ELSE /\ urls \in {SubSeq(BatchList, 1, n) : n \in 0..MaxUrls}
            /\ concurrency \in MinConcurrency..MaxConcurrency
            /\ continueOnError \in BOOLEAN
            /\ onProgress \in {"absent", "given"}
            /\ configOutputFormat = DefaultOutputFormat
            /\ enableAI = DefaultEnableAI
    /\ tasks = [t \in 1..Len(urls) |-> IdleTask]
    /\ pmPc = "idle"
    /\ i = 0
    /\ batch = <<>>
    /\ iterations = 0
    /\ results = <<>>
    /\ completed = 0
    /\ pmError = ""
    /\ rejectedBy = ""
    /\ progress = <<>>
    /\ finished = <<>>
    /\ sinkThrown = 0
    /\ vision = IdleVision
    /\ table = IdleTable
    /\ fmt = IdleFormat
    /\ naming = IdleNaming
    /\ entry = IdleEntry

\* ------------------------------------------------------ FileParser.parse
\* parse runs from one await to the next without interleaving.  Each piece below
\* is one such run; it gives what the run ends with: an await (on the byte
\* fetcher, an asynchronous decoder or the vision adapter), the record parse
\* resolves with, or the exception it rejects with.  c holds the locals url,
\* fileName and fileType of parse; lg says which calls of the logging sink throw;
\* path collects the calls of the sink the run makes.

Locals(url) ==
    LET fileName == extractFileName(url)
    IN  [url |-> url, fileName |-> fileName, fileType |-> detectFileType(fileName)]

Thrown(path, lg) == Cardinality({s \in path : lg[s]})

Return(r, path, lg) ==
    [k |-> "return", on |-> "", rec |-> r, msg |-> "", throws |-> Thrown(path, lg)]
Throw(m, path, lg) ==
    [k |-> "throw", on |-> "", rec |-> NoRecord, msg |-> m, throws |-> Thrown(path, lg)]
Await(p, path, lg) ==
    [k |-> "await", on |-> p, rec |-> NoRecord, msg |-> "", throws |-> Thrown(path, lg)]

\* the catch block of parse (openai.ts 396-406); the sink is called inside it
CatchBlock(c, message, path, lg) ==
    IF lg["L397"]
    THEN Throw(LoggerError, path \cup {"L397"}, lg)
    ELSE Return(FailRecord(c.fileName, c.url, c.fileType, message),
                path \cup {"L397"}, lg)

\* AIFallback that lets the adapter's exception reach the catch block of parse
AIFallbackPropagates(c, type, path, lg) ==
    CatchBlock(c, VisionError, path \cup {"L442"}, lg)

\* parseWithAI from its catch block on (openai.ts 441-461); what it throws is
\* caught by the try of parse
AIFallback(c, type, path, lg) ==
    IF lg["L442"]
    THEN CatchBlock(c, LoggerError, path \cup {"L442"}, lg)
    ELSE Return(PlaceholderRecord(c.fileName, c.url, type), path \cup {"L442"}, lg)

\* parseWithAI up to its await (openai.ts 412-431)
parseWithAI(c, type, path, lg) ==
    IF aiProvider
    THEN IF lg["L426"]
         THEN AIFallback(c, type, path \cup {"L426"}, lg)
         ELSE Await("ai", path \cup {"L426"}, lg)
    ELSE Return(PlaceholderRecord(c.fileName, c.url, type), path, lg)

\* parse that downloads before it looks at the category
parseDownloadsFirst(c, lg) ==
    IF lg["L285"] THEN Throw(LoggerError, {"L285"}, lg)
    ELSE IF c.fileType \in AITypes THEN parseWithAI(c, c.fileType, {"L285"}, lg)
    ELSE IF lg["L258"] THEN CatchBlock(c, LoggerError, {"L285", "L258"}, lg)
    ELSE Await("fetch", {"L285", "L258"}, lg)

\* parse up to its first await (openai.ts 281-312, downloadFile 250-270)
parse(c, lg) ==
    IF lg["L285"] THEN Throw(LoggerError, {"L285"}, lg)
    ELSE IF c.fileType \in AITypes THEN parseWithAI(c, c.fileType, {"L285"}, lg)
    ELSE IF c.fileType = "unknown"
         THEN Return(UnknownRecord(c.fileName, c.url), {"L285"}, lg)
    ELSE IF lg["L258"] THEN CatchBlock(c, LoggerError, {"L285", "L258"}, lg)
    ELSE Await("fetch", {"L285", "L258"}, lg)

\* afterDecode without the AI fallback of the pdf case
afterDecodeNoFallback(c, d, path, lg) ==
    IF ~d.ok
    THEN CatchBlock(c, DecoderError(c.fileType), path, lg)
    ELSE IF lg["L386"]
         THEN CatchBlock(c, LoggerError, path \cup {"L386"}, lg)
         ELSE Return(SuccessRecord(c.fileName, c.url, c.fileType, d.content),
                     path \cup {"L386"}, lg)

\* afterDecode with the AI fallback in every case of the switch
afterDecodeFallbackAll(c, d, path, lg) ==
    IF ~d.ok
    THEN IF lg["L349"]
         THEN CatchBlock(c, LoggerError, path \cup {"L349"}, lg)
         ELSE parseWithAI(c, c.fileType, path \cup {"L349"}, lg)
    ELSE IF lg["L386"]
         THEN CatchBlock(c, LoggerError, path \cup {"L386"}, lg)
         ELSE Return(SuccessRecord(c.fileName, c.url, c.fileType, d.content),
                     path \cup {"L386"}, lg)

\* parse from the result d of the decoder on (openai.ts 317-395)
afterDecode(c, d, path, lg) ==
    IF ~d.ok
    THEN IF c.fileType = "pdf"
         THEN IF lg["L349"]
              THEN CatchBlock(c, LoggerError, path \cup {"L349"}, lg)
              ELSE parseWithAI(c, "pdf", path \cup {"L349"}, lg)
         ELSE CatchBlock(c, DecoderError(c.fileType), path, lg)
    ELSE IF lg["L386"]
         THEN CatchBlock(c, LoggerError, path \cup {"L386"}, lg)
         ELSE Return(SuccessRecord(c.fileName, c.url, c.fileType, d.content),
                     path \cup {"L386"}, lg)

\* parse from the result f of the byte fetcher on (downloadFile 272-275, openai.ts
\* 312-317); d is the result of the decoder when parse calls it without await
afterDownload(c, f, d, lg) ==
    IF ~f.ok THEN CatchBlock(c, f.msg, {}, lg)
    ELSE IF lg["L273"] THEN CatchBlock(c, LoggerError, {"L273"}, lg)
    ELSE IF c.fileType \in SyncDecoded THEN afterDecode(c, d, {"L273"}, lg)
    ELSE Await("decode", {"L273"}, lg)

\* parseWithAI from the result a of analyzeImage on (openai.ts 427-461)
afterAnalyze(c, a, lg) ==
    IF a.ok THEN Return(AIRecord(c.fileName, c.url, c.fileType, a.text), {}, lg)
    ELSE AIFallback(c, c.fileType, {}, lg)

HeadSites     == {"L285", "L258", "L426", "L442", "L397"}
DownloadSites == {"L273", "L386", "L397"}
DecodeSites   == {"L349", "L386", "L426", "L442", "L397"}
AnalyzeSites  == {"L442", "L397"}

FetchResults ==
    {[ok |-> TRUE, msg |-> ""]} \cup {[ok |-> FALSE, msg |-> m] : m \in FetchErrors}
\* the extractors that take an outputFormat and give rawData when it is "raw"
Tabular == {"excel", "csv"}
\* the one-line content of a raw result (csv.ts 67)
RawSummary(type) == <<"summary of the ", type, " table">>
\* the results of a decoder: rawData tells whether result.rawData is set
DecodeResults(type) ==
    (IF type \in Tabular /\ configOutputFormat = "raw"
     THEN {[ok |-> TRUE, content |-> RawSummary(type), rawData |-> TRUE]}
     ELSE {[ok |-> TRUE, content |-> c, rawData |-> FALSE] : c \in DecodedContents(type)})
        \cup {[ok |-> FALSE, content |-> <<>>, rawData |-> FALSE]}
AnalyzeResults ==
    {[ok |-> TRUE, text |-> VisionText, msg |-> ""],
     [ok |-> FALSE, text |-> <<>>, msg |-> VisionError]}

\* the task after a run that ended with e; a run made by the caller of parse
\* (first = TRUE) settles its promise one microtask later ("tick")
Advance(tk, e, first) ==
    [tk EXCEPT
        !.pc = IF e.k = "await" THEN e.on
               ELSE IF first THEN "tick"
               ELSE IF e.k = "return" THEN "done" ELSE "threw",
        !.settles = IF e.k = "await" \/ ~first THEN ""
                    ELSE IF e.k = "return" THEN "done" ELSE "threw",
        !.rec = e.rec,
        !.msg = e.msg,
        !.fetchCalls = @ + (IF e.on = "fetch" THEN 1 ELSE 0),
        !.decodeCalls = @ + (IF e.on = "decode" THEN 1 ELSE 0),
        !.aiCalls = @ + (IF e.on = "ai" THEN 1 ELSE 0),
        !.logThrew = @ \/ e.throws > 0]

\* the call parse(url): the task once parse has run to its first await or its end
Start(tk, url, lg, chunk) ==
    LET c == Locals(url)
    IN  [Advance([tk EXCEPT !.fileName = c.fileName, !.fileType = c.fileType],
                 parse(c, lg), TRUE)
            EXCEPT !.chunk = chunk]

\* the locals of the parse call of URL t
Ctx(t) == [url |-> urls[t], fileName |-> tasks[t].fileName, fileType |-> tasks[t].fileType]

\* -------------------------------------------------------------- the steps

\* a promise that is already settled is delivered before any I/O completes
NoTick == \A t \in DOMAIN tasks : tasks[t].pc # "tick"

\* Rejects of a wrapper that swallows every exception of parse
RejectsNever(kind) == FALSE

\* Rejects that ignores continueOnError
RejectsAlways(kind) ==
    api = "parseMany" /\ pmPc = "await" /\ kind = "threw"

\* Promise.all rejects, and with it parseMany, as soon as one wrapper rejects: a
\* wrapper rejects when parse rejected and continueOnError is false (openai.ts 487)
Rejects(kind) ==
    api = "parseMany" /\ pmPc = "await" /\ kind = "threw" /\ ~continueOnError

\* the parse call of URL t settles as kind ("done" or "threw"; "" when it awaits)
Settle(t, kind, message) ==
    /\ finished' = IF kind = "" THEN finished ELSE Append(finished, t)
    /\ pmPc' = IF Rejects(kind) THEN "rejected" ELSE pmPc
    /\ pmError' = IF Rejects(kind) THEN message ELSE pmError
    /\ rejectedBy' = IF Rejects(kind) THEN "parse" ELSE rejectedBy
    /\ UNCHANGED <<config, i, batch, iterations, results, completed, progress>>

SettleKind(e) == IF e.k = "await" THEN "" ELSE IF e.k = "return" THEN "done" ELSE "threw"

\* a caller calls parser.parse(url)
CallParse ==
    /\ api = "parse"
    /\ tasks[1].pc = "idle"
    /\ \E lg \in Choices(HeadSites) :
          /\ tasks' = [tasks EXCEPT ![1] = Start(@, urls[1], lg, 0)]
          /\ sinkThrown' = sinkThrown + parse(Locals(urls[1]), lg).throws
    /\ UNCHANGED <<config, pmPc, i, batch, iterations, results, completed, pmError,
                   rejectedBy, progress, finished>>

\* the promise of a parse call that ended without awaiting settles
Tick(t) ==
    /\ tasks[t].pc = "tick"
    /\ tasks' = [tasks EXCEPT ![t].pc = tasks[t].settles, ![t].settles = ""]
    /\ Settle(t, tasks[t].settles, tasks[t].msg)
    /\ UNCHANGED sinkThrown

\* the byte fetcher answers the parse call of URL t
FetchDone(t) ==
    /\ tasks[t].pc = "fetch"
    /\ NoTick
    /\ \E f \in FetchResults, d \in DecodeResults(tasks[t].fileType),
          lg \in Choices(DownloadSites) :
          LET e == afterDownload(Ctx(t), f, d, lg)
              decoded == f.ok /\ ~lg["L273"] /\ tasks[t].fileType \in SyncDecoded
          IN  /\ tasks' = [tasks EXCEPT ![t] =
                    [Advance(@, e, FALSE) EXCEPT
                        !.fetched = f.ok,
                        !.decodeCalls = @ + (IF decoded THEN 1 ELSE 0),
                        !.decodeThrew = decoded /\ ~d.ok,
                        !.rawData = decoded /\ d.rawData,
                        !.cause = IF ~f.ok THEN f.msg
                                  ELSE IF decoded /\ ~d.ok
                                       THEN DecoderError(tasks[t].fileType)
                                       ELSE ""]]
              /\ sinkThrown' = sinkThrown + e.throws
              /\ Settle(t, SettleKind(e), e.msg)

\* an asynchronous decoder (word, pdf, xml) answers the parse call of URL t
DecodeDone(t) ==
    /\ tasks[t].pc = "decode"
    /\ NoTick
    /\ \E d \in DecodeResults(tasks[t].fileType), lg \in Choices(DecodeSites) :
          LET e == afterDecode(Ctx(t), d, {}, lg)
          IN  /\ tasks' = [tasks EXCEPT ![t] =
                    [Advance(@, e, FALSE) EXCEPT
                        !.decodeThrew = ~d.ok,
                        !.cause = IF ~d.ok THEN DecoderError(tasks[t].fileType)
                                  ELSE ""]]
              /\ sinkThrown' = sinkThrown + e.throws
              /\ Settle(t, SettleKind(e), e.msg)

\* the vision adapter answers the parse call of URL t
AnalyzeDone(t) ==
    /\ tasks[t].pc = "ai"
    /\ NoTick
    /\ \E a \in AnalyzeResults, lg \in Choices(AnalyzeSites) :
          LET e == afterAnalyze(Ctx(t), a, lg)
          IN  /\ tasks' = [tasks EXCEPT ![t] =
                    [Advance(@, e, FALSE) EXCEPT !.aiThrew = ~a.ok]]
              /\ sinkThrown' = sinkThrown + e.throws
              /\ Settle(t, SettleKind(e), e.msg)

\* --------------------------------------------------- FileParser.parseMany

\* the indices of slice(start, end), last to first
SliceReversed(n, start, end) ==
    LET from == IF start < 0 THEN (IF n + start < 0 THEN 0 ELSE n + start)
                ELSE (IF start > n THEN n ELSE start)
        to   == IF end < 0 THEN (IF n + end < 0 THEN 0 ELSE n + end)
                ELSE (IF end > n THEN n ELSE end)
    IN  IF from < to THEN [k \in 1..(to - from) |-> to + 1 - k] ELSE <<>>

\* the indices (from 1) of Array.prototype.slice(start, end) on an array of n
Slice(n, start, end) ==
    LET from == IF start < 0 THEN (IF n + start < 0 THEN 0 ELSE n + start)
                ELSE (IF start > n THEN n ELSE start)
        to   == IF end < 0 THEN (IF n + end < 0 THEN 0 ELSE n + end)
                ELSE (IF end > n THEN n ELSE end)
    IN  IF from < to THEN [k \in 1..(to - from) |-> from + k] ELSE <<>>

\* what the wrapper of URL t gives Promise.all (openai.ts 483-497)
WrapperResult(t) ==
    IF tasks[t].pc = "done" THEN tasks[t].rec
    ELSE ConvertedRecord(urls[t], tasks[t].msg)

RECURSIVE StartAll(_, _, _)
\* batch.map(...): the parse calls of the URLs b are made one after the other; the
\* started tasks, in the order of b, and the calls of the sink that threw
StartAll(b, budget, chunk) ==
    IF b = <<>> THEN {[ts |-> <<>>, throws |-> 0]}
    ELSE UNION {
            LET n == parse(Locals(urls[Head(b)]), lg).throws
            IN  {[ts |-> <<Start(tasks[Head(b)], urls[Head(b)], lg, chunk)>> \o r.ts,
                  throws |-> n + r.throws] : r \in StartAll(Tail(b), budget - n, chunk)}
            : lg \in ChoicesWithin(HeadSites, budget)}

\* the loop of parseMany from its test on, with loop variable i0 (openai.ts 479-483
\* and, when the loop ends, 507-510); thrown counts the calls of the sink that
\* threw so far
LoopHead(i0, res, comp, prog, thrown) ==
    /\ i' = i0
    /\ results' = res
    /\ completed' = comp
    /\ progress' = prog
    /\ IF i0 < Len(urls)
       THEN /\ iterations < Len(urls) + ExtraIterations
            /\ iterations' = iterations + 1
            /\ batch' = Slice(Len(urls), i0, i0 + concurrency)
            /\ pmPc' = "await"
            /\ UNCHANGED <<pmError, rejectedBy>>
            /\ \E st \in StartAll(batch', MaxSinkThrows - thrown, iterations + 1) :
                  /\ tasks' = [t \in DOMAIN tasks |->
                        IF \E k \in 1..Len(batch') : batch'[k] = t
                        THEN st.ts[CHOOSE k \in 1..Len(batch') : batch'[k] = t]
                        ELSE tasks[t]]
                  /\ sinkThrown' = thrown + st.throws
       ELSE /\ UNCHANGED <<tasks, batch, iterations>>
            /\ \E throws \in (IF customLogger /\ thrown < MaxSinkThrows
                              THEN BOOLEAN ELSE {FALSE}) :
                  /\ pmPc' = IF throws THEN "rejected" ELSE "resolved"
                  /\ pmError' = IF throws THEN LoggerError ELSE pmError
                  /\ rejectedBy' = IF throws THEN "logger" ELSE rejectedBy
                  /\ sinkThrown' = thrown + (IF throws THEN 1 ELSE 0)

\* a caller calls parser.parseMany(urls, options) (openai.ts 467-483)
CallParseMany ==
    /\ api = "parseMany"
    /\ pmPc = "idle"
    /\ \E throws \in SinkThrows :
          IF throws
          THEN /\ pmPc' = "rejected"
               /\ pmError' = LoggerError
               /\ rejectedBy' = "logger"
               /\ sinkThrown' = sinkThrown + 1
               /\ UNCHANGED <<tasks, i, batch, iterations, results, completed, progress>>
          ELSE LoopHead(0, <<>>, 0, <<>>, sinkThrown)
    /\ UNCHANGED <<config, finished>>

\* the URL indices of b in the order their parse calls settled
FinishedOf(b) == SelectSeq(finished, LAMBDA t : \E k \in 1..Len(b) : b[k] = t)

\* ProgressCall that reports the chunk's results in the order they settled
ProgressCallFinishOrder(k) ==
    [completed |-> completed + k, total |-> Len(urls),
     current |-> WrapperResult(FinishedOf(batch)[k])]

\* ProgressCall that reports the chunk's results last to first
ProgressCallReversed(k) ==
    [completed |-> completed + k, total |-> Len(urls),
     current |-> WrapperResult(batch[Len(batch) + 1 - k])]

\* ProgressCall that counts the whole chunk at once
ProgressCallChunkCount(k) ==
    [completed |-> completed + Len(batch), total |-> Len(urls),
     current |-> WrapperResult(batch[k])]

\* the onProgress call for the k-th result of the chunk
ProgressCall(k) ==
    [completed |-> completed + k, total |-> Len(urls), current |-> WrapperResult(batch[k])]

\* ChunkDone that goes on as soon as one call of the chunk has settled
ChunkDoneOnFirst ==
    /\ pmPc = "await"
    /\ \E k \in 1..Len(batch) : tasks[batch[k]].pc \in {"done", "threw"}
    /\ LoopHead(i + concurrency,
                results \o [k \in 1..Len(batch) |-> WrapperResult(batch[k])],
                completed + Len(batch),
                IF onProgress = "absent" THEN progress
                ELSE progress \o [k \in 1..Len(batch) |-> ProgressCall(k)],
                sinkThrown)
    /\ UNCHANGED <<config, finished>>

\* ChunkDone in which parseMany swallows the exception of the callback and returns
\* the results pushed so far
ChunkDoneAbsorbs ==
    /\ pmPc = "await"
    /\ \A k \in 1..Len(batch) : tasks[batch[k]].pc \in {"done", "threw"}
    /\ \/ LoopHead(i + concurrency,
                   results \o [k \in 1..Len(batch) |-> WrapperResult(batch[k])],
                   completed + Len(batch),
                   IF onProgress = "absent" THEN progress
                   ELSE progress \o [k \in 1..Len(batch) |-> ProgressCall(k)],
                   sinkThrown)
       \/ /\ onProgress = "given"
          /\ \E n \in 1..Len(batch) :
                /\ results' = results \o [k \in 1..n |-> WrapperResult(batch[k])]
                /\ completed' = completed + n
                /\ progress' = progress \o [k \in 1..n |-> ProgressCall(k)]
          /\ pmPc' = "resolved"
          /\ pmError' = CallbackError
          /\ UNCHANGED <<tasks, i, batch, iterations, sinkThrown, rejectedBy>>
    /\ UNCHANGED <<config, finished>>

\* Promise.all resolved: the for loop over batchResults (openai.ts 500-504), in
\* which the callback may throw at its n-th call, and then the next iteration
ChunkDone ==
    /\ pmPc = "await"
    /\ \A k \in 1..Len(batch) : tasks[batch[k]].pc \in {"done", "threw"}
    /\ \/ LoopHead(i + concurrency,
                   results \o [k \in 1..Len(batch) |-> WrapperResult(batch[k])],
                   completed + Len(batch),
                   IF onProgress = "absent" THEN progress
                   ELSE progress \o [k \in 1..Len(batch) |-> ProgressCall(k)],
                   sinkThrown)
       \/ /\ onProgress = "given"
          /\ \E n \in 1..Len(batch) :
                /\ results' = results \o [k \in 1..n |-> WrapperResult(batch[k])]
                /\ completed' = completed + n
                /\ progress' = progress \o [k \in 1..n |-> ProgressCall(k)]
          /\ pmPc' = "rejected"
          /\ pmError' = CallbackError
          /\ rejectedBy' = "onProgress"
          /\ UNCHANGED <<tasks, i, batch, iterations, sinkThrown>>
    /\ UNCHANGED <<config, finished>>

Next ==
    \/ CallParse
    \/ CallParseMany
    \/ ChunkDone
    \/ \E t \in DOMAIN tasks : Tick(t)
    \/ \E t \in DOMAIN tasks : FetchDone(t)
    \/ \E t \in DOMAIN tasks : DecodeDone(t)
    \/ \E t \in DOMAIN tasks : AnalyzeDone(t)

Spec == Init /\ [][Next]_vars

\* ------------------------------------------------------------ properties

\* the parse call of URL t has settled
Settled(t) == tasks[t].pc \in {"done", "threw"}
\* the parse call of URL t was made and has not settled
InFlight(t) == tasks[t].pc \in {"tick", "fetch", "decode", "ai"}
\* the template-literal content holds the piece
Has(content, piece) == \E k \in 1..Len(content) : content[k] = piece
\* the URLs of the inputs whose file name has no extension of EXTENSION_MAP
UnknownUrls == {UrlBin, UrlReadme, UrlEnv, UrlBadEscape, UrlNoName}
\* every record a parse call, parseMany or an onProgress call has handed out
Returned ==
    {tasks[t].rec : t \in {u \in DOMAIN tasks : tasks[u].pc = "done"}}
        \cup {results[k] : k \in 1..Len(results)}
        \cup {progress[k].current : k \in 1..Len(progress)}
\* the index of the URL a record is about (the URLs of one call are distinct)
IndexOf(r) == CHOOSE t \in DOMAIN tasks : Join(urls[t]) = r.url
\* the position of URL t in the order of settling
FinishPos(t) == CHOOSE p \in 1..Len(finished) : finished[p] = t
\* the chunk of URL t when concurrency >= 1
ChunkOf(t) == ((t - 1) \div concurrency) + 1

\* C1: no outcome of the byte fetcher or of a decoder other than the PDF decoder
\* makes parse reject: when the fetch fails (also for a PDF URL) or such a decoder
\* throws, parse resolves with a record that has success = FALSE, empty content,
\* the category the URL classifies to, and the exception's message as error.  The
\* only exceptions parse lets out are those thrown by the logging sink itself.
C1_FailureBecomesRecord ==
    \A t \in DOMAIN tasks :
        /\ tasks[t].pc = "threw" => tasks[t].logThrew
        /\ ( /\ Settled(t)
             /\ ~tasks[t].logThrew
             /\ tasks[t].cause # ""
             /\ (tasks[t].fileType # "pdf" \/ ~tasks[t].fetched) )
           => /\ tasks[t].pc = "done"
              /\ tasks[t].rec =
                    [fileName |-> Join(extractFileName(urls[t])),
                     url |-> Join(urls[t]),
                     type |-> detectFileType(extractFileName(urls[t])),
                     content |-> <<>>, success |-> FALSE,
                     error |-> tasks[t].cause]

\* C1 witness: the fetch of a PDF URL failed and parse resolved with the record
C1_Witness ==
    \E t \in DOMAIN tasks :
        /\ urls[t] = UrlPdf
        /\ tasks[t].pc = "done"
        /\ tasks[t].fetchCalls = 1 /\ ~tasks[t].fetched
        /\ tasks[t].cause \in FetchErrors
        /\ ~tasks[t].rec.success

C3_AICategoriesSucceed ==
    \A t \in DOMAIN tasks :
        (tasks[t].fileType \in AITypes /\ Settled(t) /\ ~tasks[t].logThrew)
        => /\ tasks[t].pc = "done"
           /\ tasks[t].rec.success
           /\ "error" \notin DOMAIN tasks[t].rec
           /\ tasks[t].rec.type = tasks[t].fileType
           /\ tasks[t].aiCalls = (IF aiProvider THEN 1 ELSE 0)
           /\ (aiProvider /\ ~tasks[t].aiThrew) => tasks[t].rec.content = VisionText
           /\ (~aiProvider \/ tasks[t].aiThrew)
                 => /\ Has(tasks[t].rec.content, Labels(tasks[t].fileType))
                    /\ Has(tasks[t].rec.content, Join(extractFileName(urls[t])))
                    /\ Has(tasks[t].rec.content, Join(urls[t]))

\* C3 witness: the adapter threw for an image URL and parse resolved with the
\* placeholder
C3_Witness ==
    \E t \in DOMAIN tasks :
        /\ tasks[t].fileType = "image"
        /\ tasks[t].aiThrew
        /\ tasks[t].pc = "done"
        /\ tasks[t].rec.success
        /\ Has(tasks[t].rec.content, Join(urls[t]))

\* C4: for a PDF URL the vision adapter is called only after the bytes were
\* fetched and the local decoder was tried and threw; once the bytes are there
\* the decoder is tried; and when the decoder threw the record is a success (the
\* adapter's text or the placeholder), as long as the logging sink does not throw
C4_PdfLocalFirst ==
    \A t \in DOMAIN tasks :
        tasks[t].fileType = "pdf"
        => /\ tasks[t].aiCalls > 0
                 => (tasks[t].fetched /\ tasks[t].decodeCalls = 1 /\ tasks[t].decodeThrew)
           /\ (tasks[t].fetched /\ ~tasks[t].logThrew) => tasks[t].decodeCalls = 1
           /\ (tasks[t].decodeThrew /\ Settled(t) /\ ~tasks[t].logThrew)
                 => /\ tasks[t].pc = "done"
                    /\ tasks[t].rec.success
                    /\ "error" \notin DOMAIN tasks[t].rec
                    /\ tasks[t].aiCalls = (IF aiProvider THEN 1 ELSE 0)
                    /\ \/ /\ tasks[t].aiCalls = 1 /\ ~tasks[t].aiThrew
                          /\ tasks[t].rec.content = VisionText
                       \/ /\ (~aiProvider \/ tasks[t].aiThrew)
                          /\ tasks[t].rec.content =
                                PlaceholderContent(extractFileName(urls[t]), urls[t], "pdf")

\* C4 witness: the PDF decoder threw, the adapter was called and answered
C4_Witness ==
    \E t \in DOMAIN tasks :
        /\ urls[t] = UrlPdf
        /\ tasks[t].decodeThrew
        /\ tasks[t].aiCalls = 1
        /\ tasks[t].pc = "done"
        /\ tasks[t].rec.content = VisionText

\* C5: a URL whose extension is not in the table gets, without a call of the byte
\* fetcher, a decoder or the adapter, a returned record with success = FALSE, type
\* unknown and the unsupported-format error; a URL of any other category gets a
\* successful record whenever neither the fetch nor the decoder failed (and the
\* logging sink did not throw)
C5_OnlyUnknownFailsUnfetched ==
    \A t \in DOMAIN tasks :
        /\ urls[t] \in UnknownUrls
              => tasks[t].fetchCalls = 0 /\ tasks[t].decodeCalls = 0 /\ tasks[t].aiCalls = 0
        /\ (Settled(t) /\ ~tasks[t].logThrew)
              => IF urls[t] \in UnknownUrls
                 THEN /\ tasks[t].pc = "done"
                      /\ ~tasks[t].rec.success
                      /\ tasks[t].rec.type = "unknown"
                      /\ tasks[t].rec.error = UnsupportedFormat
                 ELSE tasks[t].cause = ""
                         => /\ tasks[t].pc = "done"
                            /\ tasks[t].rec.success
                            /\ tasks[t].rec.type # "unknown"

\* C5 witness: parse resolved for the URL without an extension
C5_Witness ==
    /\ api = "parse"
    /\ urls[1] = UrlReadme
    /\ tasks[1].pc = "done"
    /\ tasks[1].fetchCalls = 0
    /\ tasks[1].rec.error = UnsupportedFormat

\* C6: in parseMany with concurrency >= 1, under every interleaving, a parse call
\* is started only when every parse call of the chunks before its own has settled,
\* at most concurrency parse calls are in flight, and the chunks are the
\* consecutive slices of the URL list of size concurrency: URL t is started in the
\* iteration ((t - 1) div concurrency) + 1 and the current chunk is the slice at i
C6_ChunksAreSequential ==
    (api = "parseMany" /\ concurrency >= 1)
    => /\ \A t, u \in DOMAIN tasks :
             (tasks[u].pc # "idle" /\ ChunkOf(t) < ChunkOf(u)) => Settled(t)
       /\ Cardinality({t \in DOMAIN tasks : InFlight(t)}) <= concurrency
       /\ \A t \in DOMAIN tasks :
             tasks[t].pc # "idle" => tasks[t].chunk = ChunkOf(t)
       /\ pmPc = "await"
             => /\ Len(batch) = Min({concurrency, Len(urls) - i})
                /\ \A k \in 1..Len(batch) :
                      batch[k] = i + k /\ tasks[i + k].pc # "idle"

\* C6 witness: with concurrency 2 both calls of the second chunk are in flight,
\* one of them waiting for the byte fetcher
C6_Witness ==
    /\ api = "parseMany"
    /\ concurrency = 2
    /\ Len(urls) >= 4
    /\ InFlight(3) /\ InFlight(4)
    /\ tasks[4].pc = "fetch"
    /\ Settled(1) /\ Settled(2)

\* C7: when parseMany has resolved over N URLs with an onProgress callback and a
\* concurrency >= 1, onProgress was called exactly N times, once for each URL,
\* with completed = 1, 2, ..., N in that order and total = N in every call
C7_ProgressCounts ==
    (pmPc = "resolved" /\ onProgress = "given" /\ concurrency >= 1)
    => /\ Len(progress) = Len(urls)
       /\ \A k \in 1..Len(progress) :
             progress[k].completed = k /\ progress[k].total = Len(urls)
       /\ \A t \in DOMAIN tasks :
             Cardinality({k \in 1..Len(progress) :
                            progress[k].current.url = Join(urls[t])}) = 1

\* C7 witness: parseMany resolved over MaxUrls URLs in chunks of 2 and the last
\* call of the callback reported completed = MaxUrls
C7_Witness ==
    /\ pmPc = "resolved"
    /\ onProgress = "given"
    /\ concurrency = 2
    /\ Len(urls) = MaxUrls
    /\ iterations = (MaxUrls + 1) \div 2
    /\ progress[Len(progress)].completed = MaxUrls

C9_ResultsAreProgressRecords ==
    onProgress = "given"
    => /\ Len(results) = Len(progress)
       /\ \A k \in 1..Len(progress) : progress[k].current = results[k]
       /\ pmPc = "resolved" => Len(results) = completed

\* C9 witness: parseMany resolved with several chunks and records that differ
C9_Witness ==
    /\ pmPc = "resolved"
    /\ onProgress = "given"
    /\ iterations >= 2
    /\ Len(progress) >= 3
    /\ progress[1].current.success /\ ~progress[3].current.success
    /\ results[3] = progress[3].current

\* C10: with continueOnError true and concurrency >= 1, no exception of a parse
\* call makes parseMany reject, and when parseMany has resolved, every URL was
\* processed and the results hold exactly one record per URL, in the place of the
\* URL: the record parse resolved with, or, when parse rejected, a record with
\* empty content, type unknown, success = FALSE and the exception's message
C10_ContinueOnError ==
    (api = "parseMany" /\ continueOnError)
    => /\ rejectedBy # "parse"
       /\ (pmPc = "resolved" /\ concurrency >= 1)
             => /\ Len(results) = Len(urls)
                /\ \A t \in DOMAIN tasks :
                      /\ Settled(t)
                      /\ tasks[t].pc = "done" => results[t] = tasks[t].rec
                      /\ tasks[t].pc = "threw"
                            => results[t] =
                                  [fileName |-> Join(extractFileName(urls[t])),
                                   url |-> Join(urls[t]), type |-> "unknown",
                                   content |-> <<>>, success |-> FALSE,
                                   error |-> tasks[t].msg]

\* C10 witness: a parse call of the first chunk rejected, parseMany went on with
\* the rest of the chunk and the next chunk and resolved
C10_Witness ==
    /\ api = "parseMany"
    /\ continueOnError
    /\ pmPc = "resolved"
    /\ concurrency = 2
    /\ Len(results) = Len(urls)
    /\ Len(urls) >= 3
    /\ tasks[1].pc = "threw"
    /\ tasks[2].pc = "done" /\ tasks[3].pc = "done"
    /\ ~results[1].success /\ results[1].error = tasks[1].msg

\* C11: with continueOnError false, as soon as a parse call rejects, parseMany
\* rejects with the exception of the first parse call that rejected; from then on
\* parseMany never resolves (no results are returned) and no parse call of a
\* later chunk has been started
C11_AbortOnError ==
    (api = "parseMany" /\ ~continueOnError)
    => \A t \in DOMAIN tasks :
          tasks[t].pc = "threw"
          => /\ pmPc = "rejected"
             /\ rejectedBy = "parse"
             /\ \E f \in DOMAIN tasks :
                   /\ tasks[f].pc = "threw"
                   /\ \A u \in DOMAIN tasks :
                         tasks[u].pc = "threw" => FinishPos(f) <= FinishPos(u)
                   /\ pmError = tasks[f].msg
             /\ \A u \in DOMAIN tasks :
                   (u > t /\ tasks[u].chunk # tasks[t].chunk) => tasks[u].pc = "idle"

\* C11 witness: with concurrency 2 the first parse call rejected while the second
\* was still downloading; parseMany is rejected and the third URL was never started
C11_Witness ==
    /\ api = "parseMany"
    /\ ~continueOnError
    /\ concurrency = 2
    /\ Len(urls) >= 3
    /\ tasks[1].pc = "threw"
    /\ tasks[2].pc \in {"fetch", "ai", "done"}
    /\ tasks[3].pc = "idle"
    /\ pmPc = "rejected"
    /\ pmError = tasks[1].msg

\* ------------------------------------------- vision adapters: analyzeImage
\* OpenAIProvider, GeminiProvider and AnthropicProvider have the same retry loop;
\* the gemini and anthropic variants first download the image themselves.

\* no call of parse or parseMany is being followed
ParserUnused ==
    /\ api = "none"
    /\ urls = <<>>
    /\ aiProvider = FALSE
    /\ customLogger = FALSE
    /\ concurrency = DefaultConcurrency
    /\ continueOnError = TRUE
    /\ onProgress = "absent"
    /\ configOutputFormat = DefaultOutputFormat
    /\ enableAI = DefaultEnableAI
    /\ tasks = <<>>
    /\ pmPc = "idle"
    /\ i = 0
    /\ batch = <<>>
    /\ iterations = 0
    /\ results = <<>>
    /\ completed = 0
    /\ pmError = ""
    /\ rejectedBy = ""
    /\ progress = <<>>
    /\ finished = <<>>
    /\ sinkThrown = 0

Providers == {"openai", "gemini", "anthropic"}
\* config.maxRetries || 3
DefaultMaxRetries == 3
\* sleep(500 * attempt)
BackoffMs == 500
\* config.maxRetries: 0 stands for an absent (or zero) option; a caller may pass
\* any number
MinRetries == 0 - 1
\* "AI 返回内容为空"
EmptyContent == "AI returned empty content"
\* "未知错误"
UnknownError == "unknown error"
\* `图片识别失败: ${lastError?.message || "未知错误"}`
RecognitionFailed(m) == "vision recognition failed: " \o m
\* messages of the exceptions of client.post (network, non-2xx)
PostErrors == {"Network Error", "Request failed with status code 500"}
\* message of the exception of the image download of fetchImageAsBase64
ImageFetchError == "Request failed with status code 404"
\* the texts of a response body, in the order of the body: choices[..].message
\* .content, content[..].text, candidates[0].content.parts[..].text
ResponseTexts == {<<>>, <<"">>, <<"a cat">>, <<"", "a dog">>}

RECURSIVE JoinTexts(_)
\* texts.join("") over the parts that have a text
JoinTexts(parts) ==
    IF parts = <<>> THEN "" ELSE Head(parts) \o JoinTexts(Tail(parts))

\* the text analyzeImage reads from the response body: the first one (openai,
\* anthropic) or all parts joined (GeminiProvider.extractText)
extractText(provider, data) ==
    IF provider = "gemini" THEN JoinTexts(data)
    ELSE IF data = <<>> THEN "" ELSE data[1]

\* Truthy that takes every text, the empty one too
TruthyAlways(text) == TRUE

\* if (text): a string is truthy when it is not empty
Truthy(text) == text # ""

\* maxRetriesOf that makes one attempt and then maxRetries retries
maxRetriesOfPlusOne(cfg) == (IF cfg = 0 THEN DefaultMaxRetries ELSE cfg) + 1

\* const maxRetries = this.config.maxRetries || 3
maxRetriesOf(cfg) == IF cfg = 0 THEN DefaultMaxRetries ELSE cfg

\* Backoff that doubles: 500, 1000, 2000, ...
BackoffExponential(attempt) == BackoffMs * (2 ^ (attempt - 1))

\* the delay after failed attempt number attempt: 500 * attempt
Backoff(attempt) == BackoffMs * attempt

\* the for loop from its test on, with loop variable attempt: the next request,
\* or the final throw
LoopTest(v, attempt) ==
    IF attempt <= maxRetriesOf(v.maxRetries)
    THEN [v EXCEPT !.pc = "post", !.attempt = attempt, !.requests = @ + 1]
    ELSE [v EXCEPT !.pc = "failed", !.attempt = attempt,
                   !.error = RecognitionFailed(IF v.lastError = "" THEN UnknownError
                                               ELSE v.lastError)]

\* the catch block of the loop after the attempt failed with message m
AttemptFailed(v, m, kind) ==
    LET w == [v EXCEPT !.lastError = m, !.history = Append(@, kind)]
    IN  IF v.attempt < maxRetriesOf(v.maxRetries)
        THEN [w EXCEPT !.pc = "sleep", !.sleeps = Append(@, Backoff(v.attempt))]
        ELSE LoopTest(w, v.attempt + 1)

InitVision ==
    /\ ParserUnused
    /\ \E p \in Providers, n \in MinRetries..MaxRetriesBound :
          vision = [IdleVision EXCEPT !.provider = p, !.maxRetries = n]
    /\ table = IdleTable
    /\ fmt = IdleFormat
    /\ naming = IdleNaming
    /\ entry = IdleEntry

\* a caller calls provider.analyzeImage(request)
CallAnalyzeImage ==
    /\ vision.pc = "idle"
    /\ vision' = IF vision.provider = "openai" THEN LoopTest(vision, 1)
                 ELSE [vision EXCEPT !.pc = "image"]
    /\ UNCHANGED <<parserVars, table, fmt, naming, entry>>

\* gemini, anthropic: the download of the image answers (fetchImageAsBase64, awaited
\* before the loop and outside its try)
ImageFetched ==
    /\ vision.pc = "image"
    /\ \/ vision' = LoopTest([vision EXCEPT !.imageFetched = TRUE,
                                            !.imageFetches = @ + 1], 1)
       \/ vision' = [vision EXCEPT !.pc = "failed", !.error = ImageFetchError,
                                   !.imageFetches = @ + 1]
    /\ UNCHANGED <<parserVars, table, fmt, naming, entry>>

\* the vendor answers the request of the current attempt, or the request fails
PostDone ==
    /\ vision.pc = "post"
    /\ \/ \E data \in ResponseTexts :
             LET text == extractText(vision.provider, data)
             IN  vision' = IF Truthy(text)
                           THEN [vision EXCEPT !.pc = "returned", !.content = text,
                                               !.history = Append(@, "ok")]
                           ELSE AttemptFailed(vision, EmptyContent, "empty")
       \/ \E m \in PostErrors : vision' = AttemptFailed(vision, m, "error")
    /\ UNCHANGED <<parserVars, table, fmt, naming, entry>>

\* the timer of sleep fires
SleepDone ==
    /\ vision.pc = "sleep"
    /\ vision' = LoopTest(vision, vision.attempt + 1)
    /\ UNCHANGED <<parserVars, table, fmt, naming, entry>>

NextVision ==
    \/ CallAnalyzeImage
    \/ ImageFetched
    \/ PostDone
    \/ SleepDone

SpecVision == InitVision /\ [][NextVision]_vars

\* the maxRetries in force: the configured one, 3 when none is configured
InForce == IF vision.maxRetries = 0 THEN 3 ELSE vision.maxRetries
\* maxRetries is configured >= 1, or not configured
RetriesInScope == vision.maxRetries >= 0
\* the adapter's own download of the image failed (gemini, anthropic)
ImageFetchFailed ==
    vision.pc = "failed" /\ vision.provider # "openai" /\ ~vision.imageFetched

RECURSIVE SumSeq(_)
SumSeq(q) == IF q = <<>> THEN 0 ELSE Head(q) + SumSeq(Tail(q))

\* C12: for every variant and maxRetries = n >= 1 (3 when not configured)
\* analyzeImage makes at most n requests; it returns the content of the first
\* attempt that succeeds, and when no attempt among the first n succeeds it fails
\* after exactly n attempts with the vision-recognition-failed error that wraps
\* the message of the last failed attempt.  (The image download that the gemini
\* and anthropic variants make before the first attempt is not an attempt; a
\* call that fails in it has made no request.)
C12_RetryLoop ==
    RetriesInScope
    => /\ vision.requests <= InForce
       /\ vision.pc = "returned"
             => /\ Len(vision.history) = vision.requests
                /\ \A k \in 1..Len(vision.history) :
                      (vision.history[k] = "ok") <=> (k = Len(vision.history))
                /\ vision.content \in {"a cat", "a dog"}
       /\ (vision.pc = "failed" /\ ~ImageFetchFailed)
             => /\ vision.requests = InForce
                /\ Len(vision.history) = InForce
                /\ \A k \in 1..InForce : vision.history[k] # "ok"
                /\ vision.lastError \in PostErrors \cup {EmptyContent}
                /\ (vision.history[InForce] = "empty") <=> (vision.lastError = EmptyContent)
                /\ vision.error = "vision recognition failed: " \o vision.lastError
       /\ ImageFetchFailed => vision.requests = 0

\* C12 witness: with maxRetries 3 two attempts failed and the third succeeded
C12_Witness ==
    /\ vision.maxRetries = 3
    /\ vision.provider = "anthropic"
    /\ vision.pc = "returned"
    /\ vision.history = <<"error", "error", "ok">>
    /\ vision.content = "a cat"

\* C13: analyzeImage never returns an empty text; in every variant a response
\* without text is a failed attempt: it counts as a request of the maxRetries,
\* is followed by the same delay and the next attempt as a failed request, and as
\* the last attempt it makes analyzeImage fail with the wrapped empty-content error
C13_EmptyIsFailure ==
    /\ vision.pc = "returned"
          => (vision.content # "" /\ vision.history[Len(vision.history)] = "ok")
    /\ \A k \in 1..Len(vision.history) :
          vision.history[k] = "ok" => (k = Len(vision.history) /\ vision.pc = "returned")
    /\ RetriesInScope
          => /\ Len(vision.history) <= vision.requests
             /\ vision.requests <= InForce
             /\ \A k \in 1..Len(vision.history) :
                   vision.history[k] \in {"empty", "error"}
                   => /\ k < InForce
                         => /\ Len(vision.sleeps) >= k
                            /\ k = Len(vision.history)
                                  => /\ vision.lastError # ""
                                     /\ \/ vision.pc = "sleep"
                                        \/ vision.pc = "post" /\ vision.requests = k + 1
                            /\ k < Len(vision.history) => vision.requests > k
                      /\ k = InForce
                         => /\ vision.pc = "failed"
                            /\ vision.history[k] = "empty"
                                  <=> vision.error
                                        = "vision recognition failed: AI returned empty content"

\* C13 witness: the gemini adapter got a body without parts, then one whose only
\* text is empty, then a text
C13_Witness ==
    /\ vision.provider = "gemini"
    /\ vision.history = <<"empty", "empty", "ok">>
    /\ vision.requests = 3
    /\ vision.pc = "returned"
    /\ vision.content # ""

C27_ImageFetchRetried ==
    (RetriesInScope /\ vision.provider \in {"gemini", "anthropic"}
        /\ vision.pc = "failed" /\ ~vision.imageFetched)
    => /\ vision.imageFetches = InForce
       /\ vision.error = "vision recognition failed: " \o ImageFetchError

\* gemini with maxRetries 3: the download failed once and analyzeImage failed
\* with the message of the download, unwrapped, without a request
C27_Witness ==
    /\ vision.provider = "gemini"
    /\ vision.maxRetries = 3
    /\ vision.pc = "failed"
    /\ vision.imageFetches = 1
    /\ vision.requests = 0
    /\ vision.error = ImageFetchError

\* ------------------------------------------ tabular extractors: parseCSV
\* A line and a cell are sequences of one-character strings.  A content is the
\* sequence of the lines of the string (the string is the lines joined by "\n");
\* a line of text is kept character by character, a line whose wording is fixed
\* (the omitted-rows footer, the raw summary, the pretty-printed JSON) is kept as
\* a record of the values written into it.

\* the value undefined of a field that is not set
Undefined == [undefined |-> TRUE]

RECURSIVE TrimLeft(_)
TrimLeft(q) == IF q # <<>> /\ Head(q) = " " THEN TrimLeft(Tail(q)) ELSE q
RECURSIVE TrimRight(_)
TrimRight(q) ==
    IF q # <<>> /\ q[Len(q)] = " " THEN TrimRight(SubSeq(q, 1, Len(q) - 1)) ELSE q
\* String.prototype.trim
Trim(q) == TrimRight(TrimLeft(q))

RECURSIVE JoinWith(_, _)
\* Array.prototype.join(sep) of sequences of characters
JoinWith(parts, sep) ==
    IF parts = <<>> THEN <<>>
    ELSE IF Len(parts) = 1 THEN parts[1]
    ELSE parts[1] \o sep \o JoinWith(Tail(parts), sep)

RECURSIVE parseCSVLineSplitsInQuotes(_, _, _, _, _, _)
\* the loop of parseCSVLine when a delimiter read inside quotes splits too
parseCSVLineSplitsInQuotes(line, delimiter, k, current, inQuotes, result) ==
    IF k > Len(line) THEN Append(result, Trim(current))
    ELSE LET char == line[k]
             nextIsQuote == k < Len(line) /\ line[k + 1] = "\""
         IN  IF char = delimiter
             THEN parseCSVLineSplitsInQuotes(line, delimiter, k + 1, <<>>, inQuotes,
                                             Append(result, Trim(current)))
             ELSE IF char = "\""
             THEN IF inQuotes /\ nextIsQuote
                  THEN parseCSVLineSplitsInQuotes(line, delimiter, k + 2,
                                                  Append(current, "\""), TRUE, result)
                  ELSE parseCSVLineSplitsInQuotes(line, delimiter, k + 1, current,
                                                  ~inQuotes, result)
             ELSE parseCSVLineSplitsInQuotes(line, delimiter, k + 1,
                                             Append(current, char), inQuotes, result)

RECURSIVE parseCSVLineFrom(_, _, _, _, _, _)
\* the loop of parseCSVLine at index k (from 1) with its locals
parseCSVLineFrom(line, delimiter, k, current, inQuotes, result) ==
    IF k > Len(line) THEN Append(result, Trim(current))
    ELSE LET char == line[k]
             nextIsQuote == k < Len(line) /\ line[k + 1] = "\""
         IN  IF inQuotes
             THEN IF char = "\""
                  THEN IF nextIsQuote
                       THEN parseCSVLineFrom(line, delimiter, k + 2,
                                             Append(current, "\""), TRUE, result)
                       ELSE parseCSVLineFrom(line, delimiter, k + 1, current, FALSE, result)
                  ELSE parseCSVLineFrom(line, delimiter, k + 1,
                                        Append(current, char), TRUE, result)
             ELSE IF char = "\""
                  THEN parseCSVLineFrom(line, delimiter, k + 1, current, TRUE, result)
                  ELSE IF char = delimiter
                  THEN parseCSVLineFrom(line, delimiter, k + 1, <<>>, FALSE,
                                        Append(result, Trim(current)))
                  ELSE parseCSVLineFrom(line, delimiter, k + 1,
                                        Append(current, char), FALSE, result)

parseCSVLine(line, delimiter) == parseCSVLineFrom(line, delimiter, 1, <<>>, FALSE, <<>>)

\* a cell written into the table as it stands
EscapePipesNot(cell) == cell

RECURSIVE EscapePipes(_)
\* cell.replace(/\|/g, "\\|")
EscapePipes(cell) ==
    IF cell = <<>> THEN <<>>
    ELSE (IF Head(cell) = "|" THEN <<"\\", "|">> ELSE <<Head(cell)>>)
            \o EscapePipes(Tail(cell))

\* a line of text
TextLine(chars) == [kind |-> "text", chars |-> chars]
\* "| " + cells.join(" | ") + " |"
MarkdownRow(cells) ==
    TextLine(<<"|", " ">> \o JoinWith(cells, <<" ", "|", " ">>) \o <<" ", "|">>)
\* "---"
Dashes == <<"-", "-", "-">>
\* `... 省略了 ${n} 行数据`
Footer(n) == [kind |-> "footer", omitted |-> n]

\* formatAsMarkdown of csv.ts: the text ends with "\n", so its last line is empty
csvFormatAsMarkdown(rows) ==
    IF rows = <<>> THEN <<>>
    ELSE LET header == [k \in 1..Len(rows[1]) |-> EscapePipes(rows[1][k])]
         IN  <<MarkdownRow(header), MarkdownRow([k \in 1..Len(header) |-> Dashes])>>
                \o [r \in 1..(Len(rows) - 1) |->
                        MarkdownRow([k \in 1..Len(rows[r + 1]) |->
                                        EscapePipes(rows[r + 1][k])])]
                \o <<TextLine(<<>>)>>

\* the decimal digits of a column index below ten
DigitOf(n) == <<"0", "1", "2", "3", "4", "5", "6", "7", "8", "9">>[n + 1]
\* headers[idx] || `col${idx}` (idx counted from 0 in the source, from 1 here)
csvKeyAt(headers, idx) ==
    IF idx <= Len(headers) /\ headers[idx] # <<>> THEN headers[idx]
    ELSE <<"c", "o", "l", DigitOf(idx - 1)>>
\* the object built by rows[i].forEach: a later cell with the same key wins
csvRowObject(headers, row) ==
    [key \in {csvKeyAt(headers, idx) : idx \in 1..Len(row)} |->
        row[Max({idx \in 1..Len(row) : csvKeyAt(headers, idx) = key})]]
\* formatAsJSON of csv.ts: JSON.stringify(data, null, 2)
csvFormatAsJSON(rows) ==
    <<[kind |-> "json",
       data |-> [r \in 1..(Len(rows) - 1) |-> csvRowObject(rows[1], rows[r + 1])]]>>

\* whether a line of a content is white space only
IsBlankLine(l) == l.kind = "text" /\ Trim(l.chars) = <<>>
RECURSIVE DropBlankHead(_)
DropBlankHead(c) == IF c # <<>> /\ IsBlankLine(Head(c)) THEN DropBlankHead(Tail(c)) ELSE c
RECURSIVE DropBlankTail(_)
DropBlankTail(c) ==
    IF c # <<>> /\ IsBlankLine(c[Len(c)]) THEN DropBlankTail(SubSeq(c, 1, Len(c) - 1)) ELSE c
\* content.trim(): white space, line ends included, goes from both ends
TrimContent(c) ==
    LET d == DropBlankTail(DropBlankHead(c))
        left == IF d # <<>> /\ d[1].kind = "text"
                THEN [d EXCEPT ![1] = TextLine(TrimLeft(d[1].chars))] ELSE d
    IN  IF left # <<>> /\ left[Len(left)].kind = "text"
        THEN [left EXCEPT ![Len(left)] = TextLine(TrimRight(left[Len(left)].chars))]
        ELSE left

\* rowsToInclude when maxRows limits the data rows and the header comes on top
rowsToIncludeAndHeader(total, maxRows) ==
    Min({total, IF maxRows > 0 THEN maxRows + 1 ELSE total})

\* const effectiveMaxRows = maxRows > 0 ? maxRows : lines.length;
\* const rowsToInclude = Math.min(lines.length, effectiveMaxRows)
rowsToInclude(total, maxRows) ==
    Min({total, IF maxRows > 0 THEN maxRows ELSE total})

\* parseCSV(buffer, fileName, config); text is the list of the lines of the file
parseCSV(text, delimiter, maxRows, outputFormat) ==
    LET lines == SelectSeq(text, LAMBDA line : Trim(line) # <<>>)
        included == rowsToInclude(Len(lines), maxRows)
        truncated == maxRows > 0 /\ Len(lines) > maxRows
        parsedRows == [k \in 1..included |-> parseCSVLine(lines[k], delimiter)]
        headers == parsedRows[1]
        rows == Tail(parsedRows)
        rawData == IF outputFormat = "raw"
                   THEN [sheets |-> <<[name |-> "CSV", headers |-> headers,
                                       rows |-> rows, totalRows |-> Len(rows)]>>]
                   ELSE Undefined
        content ==
            CASE outputFormat = "raw" ->
                    <<[kind |-> "summary", columns |-> Len(headers), rows |-> Len(rows)]>>
              [] outputFormat = "markdown" -> csvFormatAsMarkdown(parsedRows)
              [] outputFormat = "json" -> csvFormatAsJSON(parsedRows)
              [] OTHER ->
                    [r \in 1..Len(parsedRows) |->
                        TextLine(JoinWith(parsedRows[r], <<delimiter>>))]
        withFooter == IF truncated
                      THEN content \o <<TextLine(<<>>), Footer(Len(lines) - maxRows)>>
                      ELSE content
    IN  IF Len(lines) = 0
        THEN [content |-> <<[kind |-> "emptyFile"]>>, rawData |-> Undefined,
              metadata |-> [rowCount |-> 0, truncated |-> FALSE]]
        ELSE [content |-> TrimContent(withFooter), rawData |-> rawData,
              metadata |-> [rowCount |-> included, truncated |-> truncated]]

\* the lines a CSV file is made of:  a,b   "x,y",z   "h""i,o",k   p|q,r   and a blank one
LineAB == <<"a", ",", "b">>
LineQuoted == <<"\"", "x", ",", "y", "\"", ",", "z">>
LineEscaped == <<"\"", "h", "\"", "\"", "i", ",", "o", "\"", ",", "k">>
LinePipe == <<"p", "|", "q", ",", "r">>
LineBlank == <<" ">>
SampleLines == {LineAB, LineQuoted, LineEscaped, LinePipe, LineBlank}
\* the files: up to MaxLines lines
CsvTexts == UNION {[1..n -> SampleLines] : n \in 0..MaxLines}
\* config.maxRows ?? -1
DefaultMaxRows == 0 - 1
MaxRowsValues == DefaultMaxRows..MaxRowsBound
\* config.outputFormat: "markdown" | "json" | "csv" | "raw"
OutputFormats == {"markdown", "json", "csv", "raw"}
\* config.delimiter ?? ","
Delimiters == {",", ";"}

\* the calls of parseCSV
CsvCalls ==
    [pc : {"idle"}, extractor : {"csv"}, text : CsvTexts, delimiter : Delimiters,
     maxRows : MaxRowsValues, outputFormat : OutputFormats,
     out : {Undefined}, reparsed : {Undefined}]

\* parseCSV runs to its return
ParseCSV ==
    /\ table.pc = "idle"
    /\ table.extractor = "csv"
    /\ table' = [table EXCEPT
                    !.pc = "parsed",
                    !.out = parseCSV(table.text, table.delimiter, table.maxRows,
                                     table.outputFormat)]
    /\ UNCHANGED <<parserVars, vision, fmt, naming, entry>>

\* ----------------------------------------- tabular extractors: parseExcel
\* A sheet is what XLSX.utils.sheet_to_json(worksheet, {header: 1}) gives: the
\* sequence of its rows, a row being the sequence of its cells.  A sheet is
\* named by its position in workbook.SheetNames.  The pieces appended to content
\* all end with "\n": content is kept as the sequence of its finished lines.

\* the rows sheets are made of:  h | g     x,y | q"t     p|q     u | v | w
SampleRows ==
    << <<<<"h">>, <<"g">>>>,
       <<<<"x", ",", "y">>, <<"q", "\"", "t">>>>,
       <<<<"p", "|", "q">>>>,
       <<<<"u">>, <<"v">>, <<"w">>>> >>
SheetOfRows(n) == [k \in 1..n |-> SampleRows[((k - 1) % Len(SampleRows)) + 1]]
\* the workbooks: up to MaxSheets sheets of up to MaxSheetRows rows
Workbooks ==
    {[k \in DOMAIN f |-> SheetOfRows(f[k])] :
        f \in UNION {[1..n -> 0..MaxSheetRows] : n \in 1..MaxSheets}}

\* `【工作表: ${sheetName}】`
SheetTitle(sheetName) == [kind |-> "sheetTitle", name |-> sheetName]

\* formatAsMarkdown(sheetName, data, maxRows) of the Excel extractor
excelFormatAsMarkdown(sheetName, data, maxRows) ==
    LET cellsOf(row) == [c \in 1..Len(row) |-> EscapePipes(Trim(row[c]))]
        header == cellsOf(data[1])
        last == Min({maxRows, Len(data)}) - 1
    IN  <<TextLine(<<>>), SheetTitle(sheetName)>>
            \o (IF Len(data) > 0
                THEN <<MarkdownRow(header),
                       MarkdownRow([c \in 1..Len(header) |-> Dashes])>>
                        \o [r \in 1..last |-> MarkdownRow(cellsOf(data[r + 1]))]
                        \o (IF Len(data) > maxRows
                            THEN <<TextLine(<<>>), Footer(Len(data) - maxRows)>>
                            ELSE <<>>)
                ELSE <<>>)
            \o <<TextLine(<<>>)>>

\* headers[idx] !== undefined ? String(headers[idx]) : `col${idx}`
excelKeyAt(headers, idx) ==
    IF idx <= Len(headers) THEN headers[idx] ELSE <<"c", "o", "l", DigitOf(idx - 1)>>
excelRowObject(headers, row) ==
    [key \in {excelKeyAt(headers, idx) : idx \in 1..Len(row)} |->
        row[Max({idx \in 1..Len(row) : excelKeyAt(headers, idx) = key})]]
\* formatAsJSON(sheetName, data, maxRows) of the Excel extractor
excelFormatAsJSON(sheetName, data, maxRows) ==
    <<[kind |-> "json", sheet |-> sheetName,
       data |-> [r \in 1..(Min({maxRows, Len(data)}) - 1) |->
                    excelRowObject(data[1], data[r + 1])]]>>

\* str.includes(c)
Includes(str, c) == \E k \in 1..Len(str) : str[k] = c
RECURSIVE DoubleQuotes(_)
\* str.replace(/"/g, '""')
DoubleQuotes(str) ==
    IF str = <<>> THEN <<>>
    ELSE (IF Head(str) = "\"" THEN <<"\"", "\"">> ELSE <<Head(str)>>)
            \o DoubleQuotes(Tail(str))
\* the cell of formatAsCSV: quoted when it holds a comma, a quote or a line end
QuotedField(str) ==
    IF Includes(str, ",") \/ Includes(str, "\"") \/ Includes(str, "\n")
    THEN <<"\"">> \o DoubleQuotes(str) \o <<"\"">>
    ELSE str
\* formatAsCSV(data, maxRows) of the Excel extractor
formatAsCSV(data, maxRows) ==
    [r \in 1..Min({maxRows, Len(data)}) |->
        TextLine(JoinWith([c \in 1..Len(data[r]) |-> QuotedField(data[r][c])], <<",">>))]

\* the flag after a sheet when only that sheet decides it
truncatedOfThisSheet(truncated, maxRows, total) == maxRows > 0 /\ total > maxRows

\* if (maxRows > 0 && jsonData.length > maxRows) truncated = true
truncatedAfter(truncated, maxRows, total) ==
    IF maxRows > 0 /\ total > maxRows THEN TRUE ELSE truncated

\* the calls of parseExcel
ExcelCalls ==
    [pc : {"idle"}, extractor : {"excel"}, workbook : Workbooks, allSheets : BOOLEAN,
     maxRows : MaxRowsValues, outputFormat : OutputFormats,
     out : {Undefined}, reparsed : {Undefined}]

\* parseExcel up to the head of its loop over sheetsToProcess (sheet positions)
ExcelStart ==
    /\ table.pc = "idle"
    /\ table.extractor = "excel"
    /\ table' = [pc |-> "loop", extractor |-> "excel", workbook |-> table.workbook,
                 allSheets |-> table.allSheets, maxRows |-> table.maxRows,
                 outputFormat |-> table.outputFormat,
                 sheetsToProcess |-> IF table.allSheets
                                     THEN [k \in 1..Len(table.workbook) |-> k]
                                     ELSE <<1>>,
                 k |-> 1, content |-> <<>>, totalRows |-> 0, truncated |-> FALSE,
                 rawSheets |-> <<>>, out |-> Undefined, reparsed |-> Undefined]
    /\ UNCHANGED <<parserVars, vision, fmt, naming, entry>>

\* one iteration of the loop: the sheet is skipped when empty, else formatted
ExcelSheet ==
    /\ table.pc = "loop"
    /\ table.k <= Len(table.sheetsToProcess)
    /\ LET sheetName == table.sheetsToProcess[table.k]
           jsonData == table.workbook[sheetName]
           maxRows == table.maxRows
           included == rowsToInclude(Len(jsonData), maxRows)
       IN  IF Len(jsonData) = 0
           THEN table' = [table EXCEPT !.k = @ + 1]
           ELSE table' = [table EXCEPT
                    !.k = @ + 1,
                    !.truncated = truncatedAfter(@, maxRows, Len(jsonData)),
                    !.rawSheets =
                        IF table.outputFormat = "raw"
                        THEN Append(@, [name |-> sheetName, headers |-> <<>>,
                                        rows |-> SubSeq(jsonData, 1, included),
                                        totalRows |-> Len(jsonData)])
                        ELSE @,
                    !.content = @ \o
                        (CASE table.outputFormat = "raw" ->
                                <<[kind |-> "sheetSummary", name |-> sheetName,
                                   rows |-> Len(jsonData)]>>
                           [] table.outputFormat = "markdown" ->
                                excelFormatAsMarkdown(sheetName, jsonData, included)
                           [] table.outputFormat = "json" ->
                                excelFormatAsJSON(sheetName, jsonData, included)
                           [] OTHER -> formatAsCSV(jsonData, included)),
                    !.totalRows = @ + included]
    /\ UNCHANGED <<parserVars, vision, fmt, naming, entry>>

\* the return after the last sheet
ExcelReturn ==
    /\ table.pc = "loop"
    /\ table.k > Len(table.sheetsToProcess)
    /\ table' = [table EXCEPT
                    !.pc = "parsed",
                    !.out = [content |-> TrimContent(table.content),
                             rawData |-> IF table.outputFormat = "raw"
                                         THEN [sheets |-> table.rawSheets]
                                         ELSE Undefined,
                             metadata |-> [sheetNames |->
                                              [k \in 1..Len(table.workbook) |-> k],
                                           rowCount |-> table.totalRows,
                                           truncated |-> table.truncated]]]
    /\ UNCHANGED <<parserVars, vision, fmt, naming, entry>>

\* the text lines of a content that hold cells, parsed again with parseCSVLine
ReparsedRows(content, delimiter) ==
    LET cellLines == SelectSeq(content, LAMBDA l : l.kind = "text" /\ ~IsBlankLine(l))
    IN  [r \in 1..Len(cellLines) |-> parseCSVLine(cellLines[r].chars, delimiter)]

\* the caller reads the csv output back
Reparse ==
    /\ table.pc = "parsed"
    /\ table.outputFormat = "csv"
    /\ table' = [table EXCEPT
                    !.pc = "reparsed",
                    !.reparsed = ReparsedRows(table.out.content,
                                              IF table.extractor = "csv"
                                              THEN table.delimiter ELSE ",")]
    /\ UNCHANGED <<parserVars, vision, fmt, naming, entry>>

InitTable ==
    /\ ParserUnused
    /\ vision = IdleVision
    /\ fmt = IdleFormat
    /\ naming = IdleNaming
    /\ entry = IdleEntry
    /\ table \in CsvCalls \cup ExcelCalls

NextTable == ParseCSV \/ ExcelStart \/ ExcelSheet \/ ExcelReturn \/ Reparse

SpecTable == InitTable /\ [][NextTable]_vars

\* ------------------------------------------ tabular extractors: parseCSVLine
\* parseCSVLine on its own: every line of up to MaxLineLen characters

MaxLineLen == 5
\* the characters of a line: a letter, the two delimiters, the quote, a space
LineChars == {"a", ",", ";", "\"", " "}
LineTexts == UNION {[1..n -> LineChars] : n \in 0..MaxLineLen}
\* the calls of parseCSVLine
LineCalls ==
    [pc : {"line"}, extractor : {"csv"}, line : LineTexts, delimiter : Delimiters,
     fields : {Undefined}]

\* parseCSVLine runs to its return (csv.ts 93-129)
ParseCSVLine ==
    /\ table.pc = "line"
    /\ table' = [table EXCEPT
                    !.pc = "split",
                    !.fields = parseCSVLine(table.line, table.delimiter)]
    /\ UNCHANGED <<parserVars, vision, fmt, naming, entry>>

InitLine ==
    /\ ParserUnused
    /\ vision = IdleVision
    /\ fmt = IdleFormat
    /\ naming = IdleNaming
    /\ entry = IdleEntry
    /\ table \in LineCalls

NextLine == ParseCSVLine

SpecLine == InitLine /\ [][NextLine]_vars

\* ------------------------------------------------ properties of parseCSVLine

\* the number of quote characters before position k of the line
QuotesBefore(line, k) == Cardinality({j \in 1..(k - 1) : line[j] = "\""})
\* position k is read inside quotes: the quotes before it do not pair up
InsideQuotes(line, k) == QuotesBefore(line, k) % 2 = 1
\* the delimiter characters outside quotes
OutsideDelimiters(line, delimiter) ==
    {k \in 1..Len(line) : line[k] = delimiter /\ ~InsideQuotes(line, k)}
\* the quotes inside quotes that are followed by a quote: the doubled quotes
DoubledQuotes(line) ==
    {k \in 1..Len(line) : /\ line[k] = "\""
                          /\ InsideQuotes(line, k)
                          /\ k < Len(line)
                          /\ line[k + 1] = "\""}
\* the characters of the line that go into a field, in order: every character
\* that is neither a quote nor a delimiter outside quotes, and one quote for a
\* doubled quote
KeptChar(line, delimiter, k) ==
    IF line[k] = "\"" THEN k \in DoubledQuotes(line)
    ELSE k \notin OutsideDelimiters(line, delimiter)
RECURSIVE KeptFrom(_, _, _)
KeptFrom(line, delimiter, k) ==
    IF k > Len(line) THEN <<>>
    ELSE (IF KeptChar(line, delimiter, k) THEN <<line[k]>> ELSE <<>>)
            \o KeptFrom(line, delimiter, k + 1)
\* a sequence of characters without its spaces
NoSpaces(q) == SelectSeq(q, LAMBDA c : c # " ")
RECURSIVE Concat(_)
Concat(fields) == IF fields = <<>> THEN <<>> ELSE Head(fields) \o Concat(Tail(fields))
\* a field with no space at either end
IsTrimmed(f) == f = <<>> \/ (f[1] # " " /\ f[Len(f)] # " ")

\* C32: parseCSVLine is a two-state machine: a character is read inside quotes
\* exactly when the quotes before it do not pair up (a doubled quote inside
\* quotes keeps the state, any other quote toggles it); the line is split at
\* the delimiters read outside quotes and nowhere else, so it returns 1 + the
\* number of those delimiters fields; a doubled quote inside quotes adds one
\* literal quote and no other quote reaches a field; every returned field is
\* trimmed
C32_TwoStateMachine ==
    table.pc = "split" =>
        LET line == table.line
            fields == table.fields
        IN  /\ Len(fields) = 1 + Cardinality(OutsideDelimiters(line, table.delimiter))
            /\ \A f \in 1..Len(fields) : IsTrimmed(fields[f])
            /\ Cardinality({k \in 1..Len(Concat(fields)) : Concat(fields)[k] = "\""})
                  = Cardinality(DoubledQuotes(line))
            /\ NoSpaces(Concat(fields)) = NoSpaces(KeptFrom(line, table.delimiter, 1))

\* C32 witness: the line  "a,""  with the delimiter "," : the comma is read
\* inside quotes and the doubled quote gives one quote, in one field  a,"
C32_Witness ==
    /\ table.pc = "split"
    /\ table.delimiter = ","
    /\ table.line = <<"\"", "a", ",", "\"", "\"">>
    /\ table.fields = << <<"a", ",", "\"">> >>

\* a delimiter outside quotes splits and the fields lose the spaces at their ends
SplitAndTrimmed ==
    /\ table.pc = "split"
    /\ table.delimiter = ","
    /\ table.line = <<" ", "a", " ", ",", " ">>
    /\ table.fields = << <<"a">>, <<>> >>

\* ------------------------------------- properties of parseMany: input order

\* C26: whatever the order in which the parse calls of a chunk settle, when
\* parseMany resolves its i-th record has the URL of the i-th input, and the
\* i-th onProgress call carries the record of the i-th input URL.
C26_InputOrder ==
    /\ pmPc = "resolved" =>
            /\ Len(results) = Len(urls)
            /\ \A k \in 1..Len(urls) :
                    /\ results[k].url = Join(urls[k])
                    /\ results[k].fileName = Join(extractFileName(urls[k]))
    /\ \A k \in 1..Len(progress) :
            /\ k <= Len(urls)
            /\ progress[k].current.url = Join(urls[k])

\* the second call of the first chunk settled before the first, parseMany
\* resolved and both the records and the callbacks are in input order
C26_Witness ==
    /\ pmPc = "resolved"
    /\ Len(urls) >= 3
    /\ onProgress = "given"
    /\ finished[1] = 2
    /\ Len(progress) = Len(urls)
    /\ \A k \in 1..Len(urls) :
            results[k].url = Join(urls[k]) /\ progress[k].current.url = Join(urls[k])

\* ------------------------------------ properties of parse: calls it makes

\* the categories parse decodes itself and never hands to the vision adapter
NeverAnalyzed ==
    {"excel", "csv", "word", "text", "json", "yaml", "xml", "html", "markdown"}

\* C30: one parse call makes at most one analyzeImage call on the vision adapter
\* and at most one call of the byte fetcher; for an image, audio or video URL it
\* never calls the byte fetcher; for an excel, csv, word, text, json, yaml, xml,
\* html or markdown URL it never calls the vision adapter
C30_CallsPerParse ==
    \A t \in DOMAIN tasks :
        /\ tasks[t].aiCalls <= 1
        /\ tasks[t].fetchCalls <= 1
        /\ tasks[t].fileType \in AITypes => tasks[t].fetchCalls = 0
        /\ tasks[t].fileType \in NeverAnalyzed => tasks[t].aiCalls = 0

\* C30 witness: parse of the pdf URL resolved after one download, a failed
\* decoder and one analyzeImage call
C30_Witness ==
    /\ api = "parse"
    /\ urls[1] = UrlPdf
    /\ tasks[1].pc = "done"
    /\ tasks[1].fetchCalls = 1
    /\ tasks[1].decodeCalls = 1
    /\ tasks[1].aiCalls = 1

\* every category of C30 is parsed in some run
ImageAnalyzedUnfetched ==
    \E t \in DOMAIN tasks :
        tasks[t].fileType = "image" /\ tasks[t].aiCalls = 1 /\ tasks[t].pc = "done"
FailedCsvNotAnalyzed ==
    \E t \in DOMAIN tasks :
        /\ tasks[t].fileType = "csv" /\ tasks[t].fetchCalls = 1
        /\ tasks[t].pc = "done" /\ ~tasks[t].rec.success /\ aiProvider

\* ------------------------------ properties of parseMany: a throwing callback

\* the onProgress callback was called with the record of URL t
CalledBack(t) == \E j \in 1..Len(progress) : progress[j].current.url = Join(urls[t])
\* the onProgress callback has thrown
CallbackThrew == pmError = CallbackError

\* C29: an exception thrown by the onProgress callback is not absorbed: whatever
\* continueOnError is, parseMany is rejected with that exception; the callback
\* that threw is the last one made, so the records of the current chunk after the
\* one it was called with receive no callback, and no parse call of a later
\* chunk has been started
C29_CallbackThrowRejects ==
    CallbackThrew =>
        /\ pmPc = "rejected"
        /\ rejectedBy = "onProgress"
        /\ Len(progress) = completed
        /\ Len(results) = completed
        /\ \E n \in 1..Len(batch) :
              /\ progress[Len(progress)].current = WrapperResult(batch[n])
              /\ \A k \in 1..Len(batch) : CalledBack(batch[k]) <=> k <= n
        /\ \A t \in DOMAIN tasks :
              (\A k \in 1..Len(batch) : batch[k] < t) => tasks[t].pc = "idle"

\* C29 witness: continueOnError is true and the callback threw at its first call
\* of a chunk of two: parseMany is rejected, the second record got no callback
\* and the third URL was never started
C29_Witness ==
    /\ api = "parseMany"
    /\ continueOnError
    /\ concurrency = 2
    /\ Len(urls) >= 3
    /\ CallbackThrew
    /\ pmPc = "rejected"
    /\ completed = 1
    /\ Settled(2)
    /\ ~CalledBack(2)
    /\ tasks[3].pc = "idle"

\* ------------------------------------- properties of parseMany: termination

\* parseMany has settled
ParseManySettled == pmPc \in {"resolved", "rejected"}
\* the URL indices of the chunks entered before the current one
TakenBefore == {t \in DOMAIN tasks : tasks[t].chunk # 0 /\ tasks[t].chunk < iterations}

\* C28: for every URL list and every value of the concurrency option, positive,
\* zero or negative, parseMany settles after finitely many chunks when every
\* parse call settles: the loop never enters more chunks than there are URLs,
\* and every chunk it enters takes at least one URL, none of them taken before
\* (so the URLs left decrease until the loop ends).
C28_Terminates ==
    /\ iterations <= Len(urls)
    /\ (api = "parseMany" /\ ~ParseManySettled /\ iterations > 0) =>
            /\ batch # <<>>
            /\ \A k \in 1..Len(batch) : batch[k] \notin TakenBefore

\* concurrency 0 and a URL: the iterations take the empty chunk and leave i at
\* 0, so the loop is where it was an iteration ago, after more iterations than
\* there are URLs
C28_Witness ==
    /\ api = "parseMany"
    /\ concurrency = 0
    /\ Len(urls) >= 1
    /\ pmPc = "await"
    /\ batch = <<>>
    /\ i = 0
    /\ results = <<>>
    /\ iterations > Len(urls)

\* with a positive concurrency C28 is what the code does
PositiveConcurrencyTerminates == concurrency > 0 => C28_Terminates

\* ------------------------------------------- properties of parse: enableAI

\* parse resolved for URL t with the placeholder of parseWithAI
IsPlaceholder(t) ==
    /\ tasks[t].pc = "done"
    /\ tasks[t].rec = PlaceholderRecord(extractFileName(urls[t]), urls[t],
                                        tasks[t].fileType)

\* C24: when image.enableAI (respectively pdf.enableAI) is false, parse on an
\* image (respectively on a PDF whose local decode failed) never calls the
\* vision adapter, even with an AI provider configured, and returns the
\* placeholder record.
C24_EnableAIHonoured ==
    \A t \in DOMAIN tasks :
        /\ (tasks[t].fileType = "image" /\ ~enableAI["image"]) =>
                /\ tasks[t].aiCalls = 0
                /\ (Settled(t) /\ ~tasks[t].logThrew) => IsPlaceholder(t)
        /\ (tasks[t].fileType = "pdf" /\ ~enableAI["pdf"]) =>
                /\ tasks[t].aiCalls = 0
                /\ (Settled(t) /\ tasks[t].decodeThrew /\ ~tasks[t].logThrew)
                        => IsPlaceholder(t)

\* parse of the image URL with a provider and image.enableAI false: the vision
\* adapter was called and its text returned
C24_Witness ==
    /\ api = "parse"
    /\ urls = <<UrlPng>>
    /\ aiProvider
    /\ ~enableAI["image"]
    /\ tasks[1].pc = "done"
    /\ tasks[1].aiCalls = 1
    /\ tasks[1].rec.content = VisionText

\* ---------------------------------------- properties of parse: raw tables

\* C17: when parse handles an Excel or CSV URL with outputFormat raw and the
\* extraction succeeds, the returned record carries rawData (the sheets the
\* extractor produced) besides the one-line summary content.
C17_RawDataReturned ==
    \A t \in DOMAIN tasks :
        (/\ tasks[t].pc = "done"
         /\ tasks[t].fileType \in Tabular
         /\ configOutputFormat = "raw"
         /\ tasks[t].rec.success)
        => /\ tasks[t].rec.content = RawSummary(tasks[t].fileType)
           /\ "rawData" \in DOMAIN tasks[t].rec

\* parse of the csv URL with outputFormat raw: the extractor returned rawData,
\* the record holds the summary and no rawData
C17_Witness ==
    /\ api = "parse"
    /\ urls = <<UrlCsv>>
    /\ configOutputFormat = "raw"
    /\ tasks[1].pc = "done"
    /\ tasks[1].rawData
    /\ tasks[1].rec.success
    /\ tasks[1].rec.content = RawSummary("csv")
    /\ DOMAIN tasks[1].rec
            = {"fileName", "url", "type", "content", "success", "metadata"}

\* ------------------------------------------------ properties of the tables

\* parseCSV has returned
CsvReturned == table.extractor = "csv" /\ table.pc \in {"parsed", "reparsed"}
\* the non-blank lines of the file, in order
NonBlank(text) == SelectSeq(text, LAMBDA line : Trim(line) # <<>>)
\* the rows of a markdown table in a content: its lines that start with "|"
TableRows(content) ==
    SelectSeq(content, LAMBDA l : l.kind = "text" /\ l.chars # <<>> /\ l.chars[1] = "|")
\* the markdown row of one line of the file
RowOfLine(line, delimiter) ==
    LET cells == parseCSVLine(line, delimiter)
    IN  MarkdownRow([k \in 1..Len(cells) |-> EscapePipes(cells[k])])
\* a positive maxRows below the number of non-blank lines, markdown asked for
CsvCut ==
    /\ CsvReturned
    /\ table.outputFormat = "markdown"
    /\ table.maxRows > 0
    /\ table.maxRows < Len(NonBlank(table.text))

\* C15 as stated: with N non-blank lines and 0 < maxRows = m < N, truncated is
\* true, rowCount is m, and the markdown has m data rows besides the header and
\* the separator, then the footer of N - m omitted rows.
C15_AsStated ==
    CsvCut =>
        LET content == table.out.content
        IN  /\ table.out.metadata.truncated = TRUE
            /\ table.out.metadata.rowCount = table.maxRows
            /\ Len(TableRows(content)) = table.maxRows + 2
            /\ content[Len(content)]
                    = Footer(Len(NonBlank(table.text)) - table.maxRows)

\* C15, amended: with N non-blank lines and 0 < maxRows = m < N, truncated is
\* true, rowCount is m, and the markdown is the header row (the first line), the
\* separator row and the m - 1 data rows of lines 2..m, then an empty line and
\* the footer of N - m omitted rows: maxRows counts the header line.
C15_TruncatedMarkdown ==
    CsvCut =>
        LET lines == NonBlank(table.text)
            m == table.maxRows
            header == RowOfLine(lines[1], table.delimiter)
            columns == Len(parseCSVLine(lines[1], table.delimiter))
        IN  /\ table.out.metadata = [rowCount |-> m, truncated |-> TRUE]
            /\ table.out.content =
                    <<header, MarkdownRow([k \in 1..columns |-> Dashes])>>
                        \o [r \in 1..(m - 1) |-> RowOfLine(lines[r + 1], table.delimiter)]
                        \o <<TextLine(<<>>), TextLine(<<>>), Footer(Len(lines) - m)>>

\* three lines cut to two: one data row and a footer of one omitted row
C15_Witness ==
    /\ CsvCut
    /\ Len(NonBlank(table.text)) = 3
    /\ table.maxRows = 2
    /\ Len(TableRows(table.out.content)) = 3
    /\ table.out.content[Len(table.out.content)] = Footer(1)

\* an extractor has returned a raw result
RawReturned == table.pc \in {"parsed", "reparsed"} /\ table.outputFormat = "raw"
\* min(total, maxRows > 0 ? maxRows : total)
Capped(total, maxRows) == IF maxRows > 0 /\ maxRows < total THEN maxRows ELSE total
\* the number of rows of the source of a returned sheet
SourceRows(sheet) ==
    IF table.extractor = "csv" THEN Len(NonBlank(table.text))
    ELSE Len(table.workbook[sheet.name])

\* C16: with outputFormat raw, for both extractors and every maxRows, each
\* returned sheet's totalRows is the number of rows of its source, whatever the
\* truncation, and its row matrix has min(total, maxRows > 0 ? maxRows : total)
\* rows.
C16_RawTotals ==
    (RawReturned /\ table.out.rawData # Undefined) =>
        \A k \in 1..Len(table.out.rawData.sheets) :
            LET sheet == table.out.rawData.sheets[k]
            IN  /\ sheet.totalRows = SourceRows(sheet)
                /\ Len(sheet.rows) = Capped(SourceRows(sheet), table.maxRows)

\* a CSV file of three lines read raw with maxRows 2: totalRows is 1, one row
C16_Witness ==
    /\ RawReturned
    /\ table.extractor = "csv"
    /\ Len(NonBlank(table.text)) = 3
    /\ table.maxRows = 2
    /\ table.out.rawData.sheets[1].totalRows = 1
    /\ Len(table.out.rawData.sheets[1].rows) = 1

\* the Excel extractor alone does what C16 states
ExcelRawTotals == table.extractor = "excel" => C16_RawTotals

\* a field as C18 wants it written
FieldAsClaimed(str, delimiter) ==
    IF Includes(str, delimiter) \/ Includes(str, "\"") \/ Includes(str, "\n")
    THEN <<"\"">> \o DoubleQuotes(str) \o <<"\"">>
    ELSE str
\* the line C18 wants for a row of cells
LineAsClaimed(cells, delimiter) ==
    TextLine(JoinWith([c \in 1..Len(cells) |-> FieldAsClaimed(cells[c], delimiter)],
                      <<delimiter>>))
RECURSIVE Flatten(_)
Flatten(seqs) == IF seqs = <<>> THEN <<>> ELSE Head(seqs) \o Flatten(Tail(seqs))
\* the rows an extractor includes, as sequences of cells, in output order
IncludedRows ==
    IF table.extractor = "csv"
    THEN LET lines == NonBlank(table.text)
         IN  [r \in 1..Capped(Len(lines), table.maxRows) |->
                parseCSVLine(lines[r], table.delimiter)]
    ELSE LET sheets == IF table.allSheets THEN table.workbook ELSE <<table.workbook[1]>>
         IN  Flatten([k \in 1..Len(sheets) |->
                        SubSeq(sheets[k], 1, Capped(Len(sheets[k]), table.maxRows))])
\* the delimiter of the csv output
OutputDelimiter == IF table.extractor = "csv" THEN table.delimiter ELSE ","
\* the lines of the csv output that hold cells
CellLines(content) == SelectSeq(content, LAMBDA l : l.kind = "text" /\ ~IsBlankLine(l))

\* C18: with outputFormat csv both extractors write every included row with each
\* field that holds the delimiter, a double quote or a line end wrapped in double
\* quotes, its quotes doubled, so that parsing the output again gives the same
\* cells.
C18_CsvRoundTrip ==
    (table.pc = "reparsed") =>
        /\ CellLines(table.out.content)
                = [r \in 1..Len(IncludedRows) |->
                        LineAsClaimed(IncludedRows[r], OutputDelimiter)]
        /\ table.reparsed = IncludedRows

\* the line "x,y",z through parseCSV with outputFormat csv: written x,y,z, and
\* read back as three cells
C18_Witness ==
    /\ table.pc = "reparsed"
    /\ table.extractor = "csv"
    /\ table.text = <<LineQuoted>>
    /\ table.delimiter = ","
    /\ table.out.content = <<TextLine(<<"x", ",", "y", ",", "z">>)>>
    /\ table.reparsed = << <<<<"x">>, <<"y">>, <<"z">>>> >>

\* the Excel extractor alone does what C18 states
ExcelCsvRoundTrip == table.extractor = "excel" => C18_CsvRoundTrip

\* the sheets parseExcel is to process, in order
Processed == IF table.allSheets THEN table.workbook ELSE <<table.workbook[1]>>
\* some sheet among the first n processed ones has more rows than maxRows
SomeLonger(n) == \E j \in 1..n : Len(Processed[j]) > table.maxRows
\* parseExcel has returned
ExcelReturned == table.extractor = "excel" /\ table.pc \in {"parsed", "reparsed"}
\* the number of rows of all processed sheets
AllRows == Len(Flatten(Processed))
\* the processed sheets that are not empty
NonEmptySheets == {j \in 1..Len(Processed) : Len(Processed[j]) > 0}

\* C19: in parseExcel, with maxRows > 0 truncated is true exactly when a sheet
\* processed so far has more rows than maxRows (in the loop, so a later sheet
\* that is not truncated does not reset it, and in the result); with
\* maxRows <= 0 it is false and every row of every processed sheet is included.
C19_StickyTruncated ==
    /\ (table.extractor = "excel" /\ table.pc = "loop") =>
            (table.truncated <=> (table.maxRows > 0 /\ SomeLonger(table.k - 1)))
    /\ ExcelReturned =>
            /\ table.out.metadata.truncated
                    <=> (table.maxRows > 0 /\ SomeLonger(Len(Processed)))
            /\ table.maxRows <= 0 =>
                /\ table.out.metadata.rowCount = AllRows
                /\ table.outputFormat = "raw" =>
                        table.out.rawData.sheets =
                            [j \in 1..Cardinality(NonEmptySheets) |->
                                LET name == CHOOSE n \in NonEmptySheets :
                                        Cardinality({o \in NonEmptySheets : o < n}) = j - 1
                                IN  [name |-> name, headers |-> <<>>,
                                     rows |-> Processed[name],
                                     totalRows |-> Len(Processed[name])]]
                /\ table.outputFormat = "csv" =>
                        Len(table.out.content) = AllRows
                /\ table.outputFormat = "markdown" =>
                        Len(TableRows(table.out.content))
                            = AllRows + Cardinality(NonEmptySheets)
                /\ table.outputFormat = "json" =>
                        \A j \in 1..Len(table.out.content) :
                            Len(table.out.content[j].data)
                                = Len(table.workbook[table.out.content[j].sheet]) - 1

\* a first sheet of three rows cut at two, a last sheet of one row: still truncated
C19_Witness ==
    /\ ExcelReturned
    /\ table.allSheets
    /\ table.maxRows = 2
    /\ Len(table.workbook) >= 2
    /\ Len(table.workbook[1]) = 3
    /\ Len(table.workbook[Len(table.workbook)]) = 1
    /\ table.out.metadata.truncated = TRUE

\* ------------------------------------------------------ FileParser.format
\* A text is the sequence of the pieces a template literal or a += puts
\* together; the pieces are strings.

\* getTypeLabel(type) (openai.ts 555-573)
getTypeLabel(type) ==
    CASE type \in {"excel", "csv"} -> "table"   \* "表格"
      [] type = "word"     -> "document"        \* "文档"
      [] type = "text"     -> "text"            \* "文本"
      [] type = "pdf"      -> "PDF"
      [] type = "json"     -> "JSON"
      [] type = "yaml"     -> "YAML"
      [] type = "xml"      -> "XML"
      [] type = "html"     -> "web page"        \* "网页"
      [] type = "markdown" -> "Markdown"
      [] type = "image"    -> "image"           \* "图片"
      [] type = "audio"    -> "audio"           \* "音频"
      [] type = "video"    -> "video"           \* "视频"
      [] OTHER             -> "file"            \* "文件"

\* the records format is called with: two parsed ones, two failed ones
FileCsv ==
    [fileName |-> "b.csv", url |-> "h/b.csv", type |-> "csv",
     content |-> "| a | b |", success |-> TRUE]
FilePng ==
    [fileName |-> "a.png", url |-> "h/a.png", type |-> "image",
     content |-> "a cat", success |-> TRUE]
FileBin ==
    [fileName |-> "c.bin", url |-> "h/c.bin", type |-> "unknown",
     content |-> "[unknown format] c.bin", success |-> FALSE,
     error |-> "unsupported file format"]
FilePdf ==
    [fileName |-> "d.pdf", url |-> "h/d.pdf", type |-> "pdf",
     content |-> "", success |-> FALSE, error |-> "Network Error"]
SampleFiles == {FileCsv, FilePng, FileBin, FilePdf}
FileLists == UNION {[1..n -> SampleFiles] : n \in 0..MaxFiles}

\* options.separator ?? "---"
DefaultSeparator == "---"
\* options.onError ?? "skip"
DefaultOnError == "skip"

\* the calls of format
FormatCalls ==
    [pc : {"idle"}, files : FileLists, includeTitle : BOOLEAN, includeUrl : BOOLEAN,
     separator : {DefaultSeparator, "***"}, onError : {DefaultOnError, "include", "error"},
     k : {1}, parts : {<<>>}, examined : {0}, out : {Undefined}, error : {Undefined}]

\* `文件解析失败: ${file.fileName} - ${file.error}`
FormatFailed(file) == <<"file parse failed: ", file.fileName, " - ", file.error>>
\* `【${file.fileName}】解析失败: ${file.error}`
FailureNote(file) == <<"[", file.fileName, "]", "parse failed: ", file.error>>
\* the text of a parsed record: title line, URL line, content
Block(file, includeTitle, includeUrl) ==
    (IF includeTitle
     THEN <<"[", getTypeLabel(file.type), "]", file.fileName, "\n">> ELSE <<>>)
        \o (IF includeUrl THEN <<"URL: ", file.url, "\n">> ELSE <<>>)
        \o <<file.content>>
RECURSIVE JoinParts(_, _)
\* parts.join(`\n${separator}\n`)
JoinParts(parts, separator) ==
    IF parts = <<>> THEN <<>>
    ELSE IF Len(parts) = 1 THEN parts[1]
    ELSE parts[1] \o <<"\n", separator, "\n">> \o JoinParts(Tail(parts), separator)

\* onFailure that leaves every unsuccessful record out, whatever onError is
onFailureSkips(onError, file, parts) == [throws |-> FALSE, parts |-> parts]

\* onFailure that writes the failure note whatever onError is
onFailureNotes(onError, file, parts) ==
    [throws |-> FALSE, parts |-> Append(parts, <<"[", file.fileName, "]",
                                                 "parse failed: ", file.error>>)]

\* the branch of the loop for a record with success false (openai.ts 525-532)
onFailure(onError, file, parts) ==
    IF onError = "skip" THEN [throws |-> FALSE, parts |-> parts]
    ELSE IF onError = "error" THEN [throws |-> TRUE, msg |-> FormatFailed(file)]
    ELSE [throws |-> FALSE, parts |-> Append(parts, FailureNote(file))]

\* format is called: its locals are set, the loop is at its first record
CallFormat ==
    /\ fmt.pc = "idle"
    /\ fmt' = [fmt EXCEPT !.pc = "loop"]
    /\ UNCHANGED <<parserVars, vision, table, naming, entry>>

\* one iteration of for (const file of files)
FormatFile ==
    /\ fmt.pc = "loop"
    /\ fmt.k <= Len(fmt.files)
    /\ LET file == fmt.files[fmt.k]
           f == onFailure(fmt.onError, file, fmt.parts)
       IN  IF ~file.success
           THEN IF f.throws
                THEN fmt' = [fmt EXCEPT !.pc = "threw", !.error = f.msg,
                                        !.examined = fmt.k]
                ELSE fmt' = [fmt EXCEPT !.k = @ + 1, !.parts = f.parts,
                                        !.examined = fmt.k]
           ELSE fmt' = [fmt EXCEPT
                            !.k = @ + 1,
                            !.parts = Append(@, Block(file, fmt.includeTitle,
                                                      fmt.includeUrl)),
                            !.examined = fmt.k]
    /\ UNCHANGED <<parserVars, vision, table, naming, entry>>

\* the return after the last record
FormatReturn ==
    /\ fmt.pc = "loop"
    /\ fmt.k > Len(fmt.files)
    /\ fmt' = [fmt EXCEPT !.pc = "returned",
                          !.out = JoinParts(fmt.parts, fmt.separator)]
    /\ UNCHANGED <<parserVars, vision, table, naming, entry>>

InitFormat ==
    /\ ParserUnused
    /\ vision = IdleVision
    /\ table = IdleTable
    /\ fmt \in FormatCalls
    /\ naming = IdleNaming
    /\ entry = IdleEntry

NextFormat == CallFormat \/ FormatFile \/ FormatReturn

SpecFormat == InitFormat /\ [][NextFormat]_vars

\* ------------------------------------------------- properties of format

\* the positions of the unsuccessful records of the call
Failures == {j \in 1..Len(fmt.files) : ~fmt.files[j].success}
\* format has settled
FormatSettled == fmt.pc \in {"returned", "threw"}
\* the text format gives with onError = skip: the blocks of the parsed records
SkipText ==
    LET parsed == SelectSeq(fmt.files, LAMBDA file : file.success)
    IN  JoinParts([j \in 1..Len(parsed) |->
                        Block(parsed[j], fmt.includeTitle, fmt.includeUrl)],
                  fmt.separator)

\* C20: format with onError = error raises when its iteration first reaches an
\* unsuccessful record, citing its file name and error, and returns no text;
\* no record after that one is examined; with no unsuccessful record it raises
\* nothing and returns the text onError = skip gives.
C20_ErrorRaisesAtFirstFailure ==
    (fmt.pc # "none" /\ fmt.onError = "error") =>
        /\ Failures # {} =>
            /\ fmt.examined <= Min(Failures)
            /\ fmt.pc # "returned"
            /\ fmt.pc = "threw" =>
                LET first == fmt.files[Min(Failures)]
                IN  /\ fmt.examined = Min(Failures)
                    /\ fmt.error = <<"file parse failed: ", first.fileName,
                                     " - ", first.error>>
                    /\ fmt.out = Undefined
        /\ Failures = {} =>
            /\ fmt.pc # "threw"
            /\ fmt.pc = "returned" => (fmt.out = SkipText /\ fmt.error = Undefined)
        /\ (fmt.pc = "loop" /\ fmt.k > Len(fmt.files)) => Failures = {}

\* a parsed record, a failed one, then another record: format raised at the
\* second record and never looked at the third
C20_Witness ==
    /\ fmt.pc = "threw"
    /\ fmt.onError = "error"
    /\ Len(fmt.files) = 3
    /\ fmt.files[1].success
    /\ ~fmt.files[2].success
    /\ fmt.examined = 2
    /\ fmt.error = <<"file parse failed: ", fmt.files[2].fileName, " - ",
                     fmt.files[2].error>>

\* the pieces of text that belong to the unsuccessful records of the call
FailedTexts ==
    UNION {{fmt.files[j].fileName, fmt.files[j].url, fmt.files[j].error,
            fmt.files[j].content} : j \in Failures} \ {""}
\* the block format is to emit for the record at position j with onError = include
IncludeBlock(j) ==
    LET file == fmt.files[j]
    IN  IF file.success THEN Block(file, fmt.includeTitle, fmt.includeUrl)
        ELSE <<"[", file.fileName, "]", "parse failed: ", file.error>>

\* C21: format emits its blocks in input order, joined by "\n<separator>\n".
\* With onError = skip there is one block per successful record and no text of
\* an unsuccessful record; with onError = include there is one block per
\* record, an unsuccessful one being a one-line failure note at its position;
\* an empty input, or one of skipped records only, gives the empty string.
C21_BlocksInOrder ==
    (fmt.pc = "returned") =>
        /\ fmt.out = JoinParts(fmt.parts, fmt.separator)
        /\ fmt.onError = "skip" =>
            /\ Len(fmt.parts) = Len(fmt.files) - Cardinality(Failures)
            /\ fmt.out = SkipText
            /\ \A k \in 1..Len(fmt.out) : fmt.out[k] \notin FailedTexts
            /\ Cardinality(Failures) = Len(fmt.files) => fmt.out = <<>>
        /\ fmt.onError = "include" =>
            /\ fmt.parts = [j \in 1..Len(fmt.files) |-> IncludeBlock(j)]
            /\ \A j \in Failures : \A k \in 1..Len(fmt.parts[j]) :
                    fmt.parts[j][k] # "\n"
        /\ Len(fmt.files) = 0 => fmt.out = <<>>

\* a parsed record, a failed one, a parsed one, with onError = include: three
\* blocks, the second the failure note
C21_Witness ==
    /\ fmt.pc = "returned"
    /\ fmt.onError = "include"
    /\ Len(fmt.files) = 3
    /\ fmt.files[1].success /\ ~fmt.files[2].success /\ fmt.files[3].success
    /\ Len(fmt.parts) = 3
    /\ fmt.parts[2] = <<"[", fmt.files[2].fileName, "]", "parse failed: ",
                        fmt.files[2].error>>
    /\ fmt.out = fmt.parts[1] \o <<"\n", fmt.separator, "\n">> \o fmt.parts[2]
                    \o <<"\n", fmt.separator, "\n">> \o fmt.parts[3]

\* --------------------------------------- properties of the markdown tables

\* the included rows of every sheet that has rows (a CSV file is one sheet)
IncludedSheets ==
    LET all == IF table.extractor = "csv" THEN <<IncludedRows>>
               ELSE [k \in 1..Len(Processed) |->
                        SubSeq(Processed[k], 1,
                               Capped(Len(Processed[k]), table.maxRows))]
    IN  SelectSeq(all, LAMBDA sheet : sheet # <<>>)
\* the cells behind the rows of the markdown tables, in order: per sheet the
\* header cells, one "---" per header cell, then the cells of each data row
MarkdownCells ==
    Flatten([k \in 1..Len(IncludedSheets) |->
                <<IncludedSheets[k][1],
                  [c \in 1..Len(IncludedSheets[k][1]) |-> <<"-", "-", "-">>]>>
                    \o Tail(IncludedSheets[k])])
\* the number of '|' in a sequence of cells
PipesIn(cells) ==
    Cardinality(UNION {{<<c, k>> : k \in {j \in 1..Len(cells[c]) : cells[c][j] = "|"}} :
                        c \in 1..Len(cells)})
\* the positions of the '|' of a rendered row that follow a backslash, and of
\* those that do not
EscapedPipes(chars) == {k \in 2..Len(chars) : chars[k] = "|" /\ chars[k - 1] = "\\"}
UnescapedPipes(chars) ==
    {k \in 1..Len(chars) : chars[k] = "|" /\ (k = 1 \/ chars[k - 1] # "\\")}
\* an extractor has returned markdown
MarkdownReturned ==
    table.pc \in {"parsed", "reparsed"} /\ table.outputFormat = "markdown"

\* C25: in the markdown output of both extractors every '|' of a cell is
\* written '\|': each table row has as many escaped '|' as its cells hold '|',
\* and exactly (number of cells + 1) unescaped '|', so a '|' in a cell does not
\* change the column count of its row.
C25_PipesEscaped ==
    MarkdownReturned =>
        LET rows == TableRows(table.out.content)
        IN  /\ Len(rows) = Len(MarkdownCells)
            /\ \A r \in 1..Len(rows) :
                /\ Cardinality(EscapedPipes(rows[r].chars)) = PipesIn(MarkdownCells[r])
                /\ Cardinality(UnescapedPipes(rows[r].chars))
                        = Len(MarkdownCells[r]) + 1

\* a row with the cell p|q came out with one escaped '|' and the three
\* unescaped '|' of its two columns
C25_Witness ==
    /\ MarkdownReturned
    /\ table.extractor = "csv"
    /\ table.delimiter = ","
    /\ table.text = <<LineAB, LinePipe>>
    /\ LET row == TableRows(table.out.content)[3].chars
       IN  /\ Cardinality(EscapedPipes(row)) = 1
           /\ Cardinality(UnescapedPipes(row)) = 3

\* ------------------------------------ extractFileName and detectFileType

\* the characters of a string
Chars(str) == [k \in 1..Len(str) |-> SubSeq(str, k, k)]
\* the upper-case form of one character, and of a name
ToUpperChar(c) ==
    IF \E k \in 1..26 : LowerCase[k] = c
    THEN UpperCase[CHOOSE k \in 1..26 : LowerCase[k] = c]
    ELSE c
ToUpperCase(q) == [k \in 1..Len(q) |-> ToUpperChar(q[k])]

\* extensions outside EXTENSION_MAP, the lone "." among them
OtherExts == {".bin", ".exe", ".csvx", ".c", "."}
\* what comes before the extension: "f", nothing (a dot file), "a.b", "a%20b"
Stems == {<<"f">>, <<>>, <<"a", ".", "b">>, <<"a", "%", "2", "0", "b">>}
\* the last path segments: every extension of the table in lower and upper
\* case, other extensions, and names without any
LastSegments ==
    {stem \o ext : stem \in Stems,
                   ext \in {Chars(e) : e \in DOMAIN EXTENSION_MAP \cup OtherExts}
                        \cup {ToUpperCase(Chars(e)) : e \in DOMAIN EXTENSION_MAP}}
        \cup {Chars("README"), Chars("csv"), <<>>}
\* the query strings: none, ?x=1, one holding '/', one holding an escaped '/',
\* one holding a '.', one holding a '%' that starts no escape
Queries ==
    {<<>>, Chars("?x=1"), Chars("?p=x/y.pdf"), Chars("?r=a%2Fz.png"),
     Chars("?t=b.md"), Chars("?d=50%")}
\* the URLs extractFileName is called with
NamingUrls ==
    {Chars("https://x.com/") \o segment \o query :
        segment \in LastSegments, query \in Queries}

\* the calls of extractFileName
NamingCalls == [pc : {"idle"}, url : NamingUrls, fileName : {<<>>}, fileType : {""}]

\* const fileName = this.extractFileName(url) (openai.ts 282)
ExtractFileName ==
    /\ naming.pc = "idle"
    /\ naming' = [naming EXCEPT !.pc = "named", !.fileName = extractFileName(naming.url)]
    /\ UNCHANGED <<parserVars, vision, table, fmt, entry>>

\* const fileType = this.detectFileType(fileName) (openai.ts 283)
DetectFileType ==
    /\ naming.pc = "named"
    /\ naming' = [naming EXCEPT !.pc = "typed",
                                !.fileType = detectFileType(naming.fileName)]
    /\ UNCHANGED <<parserVars, vision, table, fmt, entry>>

InitNaming ==
    /\ ParserUnused
    /\ vision = IdleVision
    /\ table = IdleTable
    /\ fmt = IdleFormat
    /\ naming \in NamingCalls
    /\ entry = IdleEntry

NextNaming == ExtractFileName \/ DetectFileType

SpecNaming == InitNaming /\ [][NextNaming]_vars

\* ------------------------------------------------- properties of naming

\* the URL without its query string: what comes before its first '?'
PathOf(url) ==
    LET at == {k \in 1..Len(url) : url[k] = "?"}
    IN  IF at = {} THEN url ELSE SubSeq(url, 1, Min(at) - 1)
\* the last segment of a path: what comes after its last '/'
LastSegmentOf(path) ==
    LET at == {k \in 1..Len(path) : path[k] = "/"}
    IN  IF at = {} THEN path ELSE SubSeq(path, Max(at) + 1, Len(path))
\* the file name the path of a URL gives: its last segment, decoded
NameOfPath(url) ==
    LET decoded == decodeURIComponent(LastSegmentOf(PathOf(url)))
    IN  IF ~decoded.ok \/ decoded.str = <<>> THEN Unknown ELSE decoded.str

\* C22: the file name, and so the category, come from the path of the URL only,
\* decoded and without the query string: URLs that differ in their query only
\* get the same name and category, whatever the query holds.
C22_NameFromPathOnly ==
    /\ naming.pc \in {"named", "typed"} => naming.fileName = NameOfPath(naming.url)
    /\ naming.pc = "typed" =>
            naming.fileType = detectFileType(NameOfPath(naming.url))

\* https://x.com/f.csv?p=x/y.pdf is named y.pdf and classified pdf
C22_Witness ==
    /\ naming.pc = "typed"
    /\ naming.url = Chars("https://x.com/f.csv?p=x/y.pdf")
    /\ naming.fileName = Chars("y.pdf")
    /\ naming.fileType = "pdf"

\* without a '/' and a malformed escape in the query, C22 is what the code does;
\* https://x.com/a%20b.csv?x=1 gives "a b.csv"
PlainQueryNameFromPath ==
    (/\ naming.pc \in {"named", "typed"}
     /\ \A k \in 1..Len(naming.url) :
            (k > Len(PathOf(naming.url)) => naming.url[k] \notin {"/", "%"}))
    => /\ naming.fileName = NameOfPath(naming.url)
       /\ naming.url = Chars("https://x.com/a%20b.csv?x=1")
            => naming.fileName = Chars("a b.csv")

\* the positions of the dots of a name
Dots(name) == {k \in 1..Len(name) : name[k] = "."}
\* the text after the last '.' of a name, in lower case, with its dot
LowerAfterLastDot(name) ==
    Join(ToLowerCase(SubSeq(name, Max(Dots(name)), Len(name))))
\* detectFileType has returned
Typed == naming.pc = "typed"

\* C23 as stated: a name whose extension (the text after the last '.', whatever
\* its case) is in the table gets the category of the table, every other name
\* gets unknown.
C23_AsStated ==
    Typed =>
        LET name == naming.fileName
        IN  IF Dots(name) # {} /\ LowerAfterLastDot(name) \in DOMAIN EXTENSION_MAP
            THEN naming.fileType = EXTENSION_MAP[LowerAfterLastDot(name)]
            ELSE naming.fileType = "unknown"

\* C23, amended: a name whose last '.' is not its first character and whose
\* text after that '.' (whatever its case) is in the table gets the category of
\* the table; every other name, a name without '.' or one that only starts
\* with its '.' included, gets unknown; the result is always a category.
C23_Classify ==
    Typed =>
        LET name == naming.fileName
        IN  /\ naming.fileType \in FileTypes
            /\ IF /\ Dots(name) # {}
                  /\ Max(Dots(name)) > 1
                  /\ LowerAfterLastDot(name) \in DOMAIN EXTENSION_MAP
               THEN naming.fileType = EXTENSION_MAP[LowerAfterLastDot(name)]
               ELSE naming.fileType = "unknown"

\* f.XLSX is classified excel
C23_Witness ==
    /\ Typed
    /\ naming.fileName = Chars("f.XLSX")
    /\ naming.fileType = "excel"

\* the dot file .csv is classified unknown
DotFileIsUnknown ==
    (Typed /\ naming.fileName = Chars(".csv")) => naming.fileType = "unknown"

\* ------------------------------------------- the convenience functions
\* The module of the package entry (part_001 41-120) holds one variable,
\* defaultParser, and the functions configure, parse, parseMany, parseAndFormat,
\* detectFileType and extractFileName.  A FileParser instance is named by its
\* position in entry.parsers, which keeps the config each was built from.  The
\* calls are recorded in entry.events, with the parser each one took.

MaxCalls == 3

\* new FileParser() builds from {} (openai.ts 194)
EmptyConfig == [ai |-> "none", level |-> "info"]
\* the ParserConfig values callers pass: without ai, with the openai adapter, and
\* with a provider createAIProvider does not know
ConfigPlain == [ai |-> "none", level |-> "debug"]
ConfigOpenAI == [ai |-> "openai", level |-> "warn"]
ConfigOther == [ai |-> "other", level |-> "info"]
Configs == {ConfigPlain, ConfigOpenAI, ConfigOther}
\* the optional config argument of a convenience call
CallConfigs == {Undefined, ConfigOpenAI, ConfigOther}
\* createAIProvider throws on a provider outside its switch (index.ts 20-34), and
\* with it the constructor of FileParser (openai.ts 199-201)
ConstructorThrows(c) == c.ai \notin {"none", "openai", "gemini", "anthropic", "custom"}

\* new FileParser(c) that returned: the instances with the new one, and its name
Construct(e, c) == [parsers |-> Append(e.parsers, c), parser |-> Len(e.parsers) + 1]

\* getDefaultParser (part_001 52-57): the module after the call and the parser returned
getDefaultParser(e) ==
    IF e.defaultParser = 0
    THEN LET n == Construct(e, EmptyConfig)
         IN  [ok |-> TRUE, parsers |-> n.parsers, defaultParser |-> n.parser,
              parser |-> n.parser]
    ELSE [ok |-> TRUE, parsers |-> e.parsers, defaultParser |-> e.defaultParser,
          parser |-> e.defaultParser]

\* parserFor that keeps the parser of a per-call config as the default one
parserForKeepsConfig(e, c) ==
    IF c # Undefined
    THEN IF ConstructorThrows(c)
         THEN [ok |-> FALSE, parsers |-> e.parsers, defaultParser |-> e.defaultParser,
               parser |-> 0]
         ELSE LET n == Construct(e, c)
              IN  [ok |-> TRUE, parsers |-> n.parsers, defaultParser |-> n.parser,
                   parser |-> n.parser]
    ELSE getDefaultParser(e)

\* const parser = config ? new FileParser(config) : getDefaultParser()
\* (part_001 73, 88, 103); ok is FALSE when the constructor threw
parserFor(e, c) ==
    IF c # Undefined
    THEN IF ConstructorThrows(c)
         THEN [ok |-> FALSE, parsers |-> e.parsers, defaultParser |-> e.defaultParser,
               parser |-> 0]
         ELSE LET n == Construct(e, c)
              IN  [ok |-> TRUE, parsers |-> n.parsers, defaultParser |-> e.defaultParser,
                   parser |-> n.parser]
    ELSE getDefaultParser(e)

\* the record of a call: the function, its config argument, the parser it took
\* (0 when the constructor threw), the value of defaultParser before and after,
\* and for parseAndFormat the parser whose format is called after the await
Event(op, c, parser, before, after, pc) ==
    [op |-> op, config |-> c, parser |-> parser, before |-> before, after |-> after,
     pc |-> pc, formatter |-> 0]

CanCall == Len(entry.events) < MaxCalls

\* configure(config) (part_001 62-65)
Configure ==
    /\ CanCall
    /\ \E c \in Configs :
          IF ConstructorThrows(c)
          THEN entry' = [entry EXCEPT !.events = Append(@,
                            Event("configure", c, 0, entry.defaultParser,
                                  entry.defaultParser, "threw"))]
          ELSE LET n == Construct(entry, c)
               IN  entry' = [defaultParser |-> n.parser,
                             parsers |-> n.parsers,
                             events |-> Append(entry.events,
                                 Event("configure", c, n.parser, entry.defaultParser,
                                       n.parser, "done"))]
    /\ UNCHANGED <<parserVars, vision, table, fmt, naming>>

\* parse(url, config?), parseMany(urls, options?, config?) and
\* parseAndFormat(urls, formatOptions?, config?) up to their await (part_001
\* 72-74, 83-90, 98-105); a constructor that throws rejects the promise
ConvenienceCall ==
    /\ CanCall
    /\ \E op \in {"parse", "parseMany", "parseAndFormat"}, c \in CallConfigs :
          LET r == parserFor(entry, c)
          IN  entry' = [defaultParser |-> r.defaultParser,
                        parsers |-> r.parsers,
                        events |-> Append(entry.events,
                            Event(op, c, r.parser, entry.defaultParser, r.defaultParser,
                                  IF ~r.ok THEN "threw"
                                  ELSE IF op = "parseAndFormat" THEN "await"
                                  ELSE "done"))]
    /\ UNCHANGED <<parserVars, vision, table, fmt, naming>>

\* parseAndFormat after its await: parser.format(files, formatOptions) on its
\* local parser (part_001 104-105)
FormatAfterAwait ==
    /\ \E k \in 1..Len(entry.events) :
          /\ entry.events[k].pc = "await"
          /\ entry' = [entry EXCEPT !.events[k].pc = "done",
                                    !.events[k].formatter = entry.events[k].parser]
    /\ UNCHANGED <<parserVars, vision, table, fmt, naming>>

\* detectFileType(filename) and extractFileName(url) of the module (part_001 110-119)
DefaultParserCall ==
    /\ CanCall
    /\ \E op \in {"detectFileType", "extractFileName"} :
          LET r == getDefaultParser(entry)
          IN  entry' = [defaultParser |-> r.defaultParser,
                        parsers |-> r.parsers,
                        events |-> Append(entry.events,
                            Event(op, Undefined, r.parser, entry.defaultParser,
                                  r.defaultParser, "done"))]
    /\ UNCHANGED <<parserVars, vision, table, fmt, naming>>

InitEntry ==
    /\ ParserUnused
    /\ vision = IdleVision
    /\ table = IdleTable
    /\ fmt = IdleFormat
    /\ naming = IdleNaming
    /\ entry = IdleEntry

NextEntry == Configure \/ ConvenienceCall \/ FormatAfterAwait \/ DefaultParserCall

SpecEntry == InitEntry /\ [][NextEntry]_vars

\* ---------------------------------- properties of the convenience functions

\* the calls of configure that returned, before the k-th call
ConfiguredBefore(k) ==
    {j \in 1..(k - 1) : entry.events[j].op = "configure" /\ entry.events[j].pc = "done"}
\* the parsers any call before the k-th took, made or saw as the default one
KnownBefore(k) ==
    UNION {{entry.events[j].parser, entry.events[j].before, entry.events[j].after} :
            j \in 1..(k - 1)}
\* the k-th call is a convenience call that took a parser
TookParser(k) == entry.events[k].op # "configure" /\ entry.events[k].pc # "threw"

\* C31: the default parser is created on first use and replaced only by
\* configure.  A call made without a per-call config after a configure(c) that
\* returned takes the parser that configure built from c, until the next
\* configure; before any configure it takes the one parser built from {} at the
\* first such call.  A call made with a per-call config takes a parser no
\* earlier call has seen, built from that config, and leaves defaultParser as
\* it was (null included).  parseAndFormat formats with the parser it took.
C31_DefaultParser ==
    \A k \in 1..Len(entry.events) :
        LET ev == entry.events[k]
        IN  /\ k > 1 => ev.before = entry.events[k - 1].after
            /\ k = 1 => ev.before = 0
            /\ (ev.after # ev.before /\ ev.op # "configure")
                    => /\ ev.before = 0
                       /\ ev.config = Undefined
                       /\ ev.after = ev.parser
                       /\ entry.parsers[ev.after] = EmptyConfig
            /\ (TookParser(k) /\ ev.config = Undefined) =>
                    /\ ev.after = ev.parser
                    /\ IF ConfiguredBefore(k) # {}
                       THEN LET j == CHOOSE j \in ConfiguredBefore(k) :
                                        \A h \in ConfiguredBefore(k) : h <= j
                            IN  /\ ev.parser = entry.events[j].parser
                                /\ entry.parsers[ev.parser] = entry.events[j].config
                       ELSE /\ entry.parsers[ev.parser] = EmptyConfig
                            /\ \A h \in 1..(k - 1) :
                                  (TookParser(h) /\ entry.events[h].config = Undefined)
                                      => entry.events[h].parser = ev.parser
            /\ (TookParser(k) /\ ev.config # Undefined) =>
                    /\ ev.parser # 0
                    /\ ev.parser \notin KnownBefore(k)
                    /\ entry.parsers[ev.parser] = ev.config
                    /\ ev.after = ev.before
            /\ (ev.op = "parseAndFormat" /\ ev.pc = "done") => ev.formatter = ev.parser

\* C31 witness: configure(c), then a call with a per-call config, then a call
\* without one: the second call took a parser of its own and left the default
\* one alone, the third took the parser configure built from c
C31_Witness ==
    /\ Len(entry.events) = 3
    /\ entry.events[1].op = "configure" /\ entry.events[1].config = ConfigPlain
    /\ entry.events[1].parser = 1
    /\ entry.events[2].op = "parse" /\ entry.events[2].config = ConfigOpenAI
    /\ entry.events[2].parser = 2
    /\ entry.events[3].op = "parseMany" /\ entry.events[3].config = Undefined
    /\ entry.events[3].parser = 1
    /\ entry.parsers = <<ConfigPlain, ConfigOpenAI>>
    /\ entry.defaultParser = 1

\* configure(d) while parseAndFormat awaits: it formats with the parser it took
FormatsWithItsParser ==
    /\ Len(entry.events) = 3
    /\ entry.events[1].op = "configure" /\ entry.events[1].config = ConfigPlain
    /\ entry.events[2].op = "parseAndFormat" /\ entry.events[2].config = Undefined
    /\ entry.events[3].op = "configure" /\ entry.events[3].config = ConfigOpenAI
    /\ entry.events[2].pc = "done" /\ entry.events[2].formatter = 1
    /\ entry.defaultParser = 2

\* a call with a per-call config made first leaves defaultParser null
ConfigCallCreatesNoDefault ==
    /\ Len(entry.events) = 1
    /\ entry.events[1].op = "parseMany"
    /\ entry.events[1].config = ConfigOpenAI
    /\ entry.defaultParser = 0
    /\ Len(entry.parsers) = 1

\* the first call without a config creates the default parser from {}
CreatedOnFirstUse ==
    /\ Len(entry.events) = 1
    /\ entry.events[1].op = "detectFileType"
    /\ entry.defaultParser = 1
    /\ entry.parsers = <<EmptyConfig>>

====
